---- MODULE Spec2Model ----
(***************************************************************************)
(* A model of the inbound message dispatch and session memory engine of    *)
(* the WhatsApp adapter (internal/adapters/primary/whatsapp).              *)
(*                                                                         *)
(* The module holds several specifications over one set of variables; each *)
(* specification drives one component and pins the variables of the others *)
(* to their initial values:                                                *)
(*   SpecCtx      the context windows of the MemoryManager                 *)
(*   SpecStore    the memory lists and context windows, every operation    *)
(*   SpecReply    isReplyToBot on every kind of event                      *)
(*   SpecDedup    concurrent handleMessage callbacks and the duplicate     *)
(*                check                                                    *)
(*   SpecRouter   the routing cascade of handleMessage                     *)
(*   SpecSweep    syncAllMemories under failing database writes            *)
(*   SpecLimiter  sendReply calls against the rate limiter                 *)
(*   SpecOut      the tasks that send to the network, of every kind        *)
(*   SpecRetry    the retry loop of MemoryService.AddMemory                *)
(*   SpecShutdown main at the stop signal, Disconnect and the sync task    *)
(*   SpecReaders  concurrent GetMemories calls, statement by statement     *)
(*   SpecClear    ClearContext, ClearAllMemories and the reads after them  *)
(*   SpecTranscript  recordMessage on transcripts that overflow            *)
(*   SpecHook     the webhook pipelines and the bodies they are answered   *)
(*   SpecTurn     plain-chat turns of two concurrent tasks                 *)
(*   SpecDurable  the periodic sync under writes that fail, but not for    *)
(*                ever                                                     *)
(*   SpecNest     the lock calls of the operations on the two mutexes      *)
(*   SpecForget   deletions from the table, admin additions and sweeps     *)
(*   SpecLocks    which mutex is held at each access to the store's maps   *)
(***************************************************************************)
EXTENDS Integers, Sequences, FiniteSets, Bags, TLC

VARIABLES
    memories,       \* MemoryManager.memories : SessionKey -> sequence of Memory
    context,        \* MemoryManager.context  : SessionKey -> sequence of lines
    ret,            \* what the most recent store operation returned
    ctxLog,         \* history: per key, the lines added since the last clear
                    \* and not deleted by DeleteContextMessage, oldest first
    nOps,           \* number of store operations performed so far
    conversations,  \* WhatsAppAdapter.conversations : conversation ID -> Conversation
    memoryService,  \* whether a.memoryService is set (SetMemoryService was called)
    db,             \* the rows of the memories table of the MemoryDatabase, a bag
    config,         \* a.config: the WhatsAppConfig fields the dispatcher reads
    botID,          \* a.client.Store.ID, the bot's own JID
    revision,       \* which of the two isReplyToBot revisions of the source is built
    processedMsgs,  \* a.processedMsgs: the message IDs stored in the sync.Map
    calls,          \* the running handleMessage callbacks: position, event, outcome,
                    \* and the requests to external collaborators made so far
    dedupLog,       \* history: per message ID, the callbacks delivered, passed, skipped
    sweep,          \* the syncAllMemories call of the sync task: position, pairs, counts
    syncLog,        \* history: the keys at sweep start and, per synced key, whether a
                    \* write of it failed for good
    limiter,        \* a.limiter: the token bucket
    now,            \* the clock, in ticks
    sends,          \* the sendReply calls that reached the limiter, in order
    outTask,        \* the task sending to the network: its remaining steps, the tokens
                    \* it acquired and the messages it sent
    retry,          \* the MemoryService.AddMemory call in progress: position, loop
                    \* counter, returned error; history: writes attempted and failed
    proc,           \* the process: the position of main, whether the client is
                    \* connected, which task sweeps; history: the sweeps of Disconnect
    readers,        \* the GetMemories calls in progress: position, key, index, loaded count
    useLog,         \* history: per key and memory, the GetMemories calls on the key
                    \* that returned since the memory was added
    recLog,         \* history: per conversation, the lines recorded, in order, and
                    \* the time of the last recordMessage call on it
    mutexes,        \* a.mutex of the adapter and m.mutex of the MemoryManager: readers, writer
    tasks,          \* the tasks that access the maps of the MemoryManager: position, operation
    hook,           \* the webhook pipeline turn last run: pipeline, outcome, reply
    turns,          \* the plain-chat turns in progress: position, inputs, prompt, reply
    rwlocks,        \* the two RWMutexes with their waiting writers: readers, writer, pending
    nest,           \* per task, the lock calls left of its operation and the locks it holds
    forgotten,      \* history: the facts deleted from the table and not added again since
    replyEvt,       \* SpecReply: the event given to isReplyToBot
    replyOut        \* SpecReply: what isReplyToBot returned, "none" before the call

storeVars == <<memories, context, ret, ctxLog, nOps>>
registryVars == <<conversations>>
dbVars == <<memoryService, db>>
configVars == <<config, botID, revision>>
replyVars == <<replyEvt, replyOut>>
inboundVars == <<processedMsgs, calls, dedupLog>>
sweepVars == <<sweep, syncLog>>
limiterVars == <<limiter, now, sends>>
otherVars == <<outTask, retry, proc, readers, useLog, recLog, mutexes, tasks, hook, turns, rwlocks, nest, forgotten>>

vars == <<memories, context, ret, ctxLog, nOps, conversations, memoryService, db,
          config, botID, revision, processedMsgs, calls, dedupLog,
          sweep, syncLog, limiter, now, sends, replyEvt, replyOut,
          outTask, retry, proc, readers, useLog, recLog, mutexes, tasks, hook, turns, rwlocks, nest, forgotten>>

-----------------------------------------------------------------------------
(* Bounds of the model and constants of the program *)

\* memory.go:233  "if len(m.context[key]) > 10"
MaxContext == 10

\* SpecCtx: the most lines a session receives between two clears
MaxCtxLog == 12

\* total number of operations of a run of SpecStore
MaxStoreOps == 3

\* memory_service.go:35  "for retries := 0; retries < 3; retries++"
MaxAttempts == 3

Users == {"u1", "u2"}
\* group JIDs (evt.Info.Chat.String()), as strings of characters
Group1 == <<"g", "1", "@", "g.us">>
Group2 == <<"g", "2", "@", "g.us">>
Groups == {Group1, Group2}
GroupServer == "g.us"
GroupJID1 == [User |-> <<"g", "1">>, Device |-> "0", Server |-> GroupServer]
GroupJID2 == [User |-> <<"g", "2">>, Device |-> "0", Server |-> GroupServer]
GroupJIDs == {GroupJID1, GroupJID2}

\* adapter.go:520  fmt.Sprintf("whatsapp-%s", groupJID)
ConversationID(groupJID) == <<"whatsapp-">> \o groupJID
Convs == {ConversationID(g) : g \in Groups}
Msgs == {"hi"}
Contents == {"x", "y"}

-----------------------------------------------------------------------------
(* Helpers on maps (Go maps: a function whose domain is the keys present) *)

MapPut(m, k, v) == [x \in (DOMAIN m) \cup {k} |-> IF x = k THEN v ELSE m[x]]

MapDelete(m, k) == [x \in (DOMAIN m) \ {k} |-> m[x]]

EmptyMap == [x \in {} |-> <<>>]

IsSuffix(s, t) ==
    /\ Len(s) <= Len(t)
    /\ s = SubSeq(t, Len(t) - Len(s) + 1, Len(t))

RemoveAt(s, i) == SubSeq(s, 1, i - 1) \o SubSeq(s, i + 1, Len(s))

-----------------------------------------------------------------------------
(* MemoryManager (memory.go, the SessionKey revision) *)

\* the old revision's key: the conversation alone
createSessionKeyPerConversation(userID, conversationID) ==
    [UserID |-> "", ConversationID |-> conversationID]

createSessionKey(userID, conversationID) ==
    [UserID |-> userID, ConversationID |-> conversationID]

SessionKeys == {createSessionKey(u, c) : u \in Users, c \in Convs}

\* fmt.Sprintf("User: %s", m) and fmt.Sprintf("Bot: %s", m): a line is the
\* prefix and the text
UserLine(m) == <<"User: ", m>>
BotLine(m) == <<"Bot: ", m>>
Lines == {UserLine(m) : m \in Msgs} \cup {BotLine(m) : m \in Msgs}

\* a Memory; the CreatedAt and LastUsed timestamps are not modelled
NewMemory(content) == [Content |-> content, UseCount |-> 0]

\* "Limit to last 10 messages": s[len(s)-10:] when len(s) > 10
TrimKeepFirst(s) ==
    IF Len(s) > MaxContext THEN SubSeq(s, 1, MaxContext) ELSE s

TrimContext(s) ==
    IF Len(s) > MaxContext
    THEN SubSeq(s, Len(s) - MaxContext + 1, Len(s))
    ELSE s

\* an add that loses the lines added before it
AddContextMessageOverwrite(ctx, userID, conversationID, message) ==
    MapPut(ctx, createSessionKey(userID, conversationID), <<message>>)

AddContextMessage(ctx, userID, conversationID, message) ==
    LET key == createSessionKey(userID, conversationID)
        cur == IF key \in DOMAIN ctx THEN ctx[key] ELSE <<>>
    IN  MapPut(ctx, key, TrimContext(Append(cur, message)))

GetContext(ctx, userID, conversationID) ==
    LET key == createSessionKey(userID, conversationID)
    IN  IF key \in DOMAIN ctx THEN ctx[key] ELSE <<>>

ClearContext(ctx, userID, conversationID) ==
    MapDelete(ctx, createSessionKey(userID, conversationID))

ExtractMemories(ctx, userID, conversationID, userMessage, botResponse) ==
    AddContextMessage(
        AddContextMessage(ctx, userID, conversationID, UserLine(userMessage)),
        userID, conversationID, BotLine(botResponse))

\* adapter_replies.go DeleteContextMessage: the new context map and the result
DeleteContextMessage(ctx, conversationID, userID, index) ==
    LET key == createSessionKey(userID, conversationID)
    IN  IF key \notin DOMAIN ctx \/ Len(ctx[key]) = 0
        THEN <<ctx, FALSE>>
        ELSE IF index < 0 \/ index >= Len(ctx[key])
        THEN <<ctx, FALSE>>
        ELSE <<MapPut(ctx, key, RemoveAt(ctx[key], index + 1)), TRUE>>

AddMemory(mems, userID, conversationID, content) ==
    LET key == createSessionKey(userID, conversationID)
        cur == IF key \in DOMAIN mems THEN mems[key] ELSE <<>>
    IN  MapPut(mems, key, Append(cur, NewMemory(content)))

\* GetMemories: the new memories map (use counts incremented) and the result
GetMemories(mems, userID, conversationID) ==
    LET key == createSessionKey(userID, conversationID)
    IN  IF key \in DOMAIN mems
        THEN LET used == [i \in 1..Len(mems[key]) |->
                            [mems[key][i] EXCEPT !.UseCount = @ + 1]]
             IN  <<MapPut(mems, key, used), used>>
        ELSE <<mems, <<>>>>

-----------------------------------------------------------------------------
(* History of the context windows.  ctxLog[k].lines are the lines added   *)
(* to k since its last clear and not deleted by DeleteContextMessage,     *)
(* oldest first; ctxLog[k].evicted counts those of them that were pushed  *)
(* out of the window by an add that found it full.                        *)

NoLog == [lines |-> <<>>, evicted |-> 0]

LogRec(log, k) == IF k \in DOMAIN log THEN log[k] ELSE NoLog

LogOf(k) == LogRec(ctxLog, k).lines
EvictedOf(k) == LogRec(ctxLog, k).evicted
CtxOf(k) == IF k \in DOMAIN context THEN context[k] ELSE <<>>
MemOf(k) == IF k \in DOMAIN memories THEN memories[k] ELSE <<>>

\* the log after one more line is added to a window holding `held` lines
LogAppend(log, k, line, held) ==
    MapPut(log, k,
        [lines |-> Append(LogRec(log, k).lines, line),
         evicted |-> LogRec(log, k).evicted
                        + (IF held >= MaxContext THEN 1 ELSE 0)])

\* the log after the line at 0-based `index` of the window is deleted
LogRemove(log, k, index) ==
    MapPut(log, k,
        [LogRec(log, k) EXCEPT
            !.lines = RemoveAt(@, LogRec(log, k).evicted + index + 1)])

Min(a, b) == IF a < b THEN a ELSE b

-----------------------------------------------------------------------------
(* Strings: a string is the sequence of its characters.  A server name    *)
(* ("s.whatsapp.net", "g.us") is kept as one element: no operation of the *)
(* program looks inside it.                                               *)

UpperLetters == <<"A", "B", "C", "D", "E", "F", "G", "H", "I", "J", "K", "L", "M",
                  "N", "O", "P", "Q", "R", "S", "T", "U", "V", "W", "X", "Y", "Z">>
LowerLetters == <<"a", "b", "c", "d", "e", "f", "g", "h", "i", "j", "k", "l", "m",
                  "n", "o", "p", "q", "r", "s", "t", "u", "v", "w", "x", "y", "z">>

LowerChar(ch) ==
    IF \E i \in 1..26 : UpperLetters[i] = ch
    THEN LowerLetters[CHOOSE i \in 1..26 : UpperLetters[i] = ch]
    ELSE ch

\* strings.ToLower
ToLower(str) == [i \in 1..Len(str) |-> LowerChar(str[i])]

\* strings.Contains
Contains(str, substr) ==
    \E i \in 0..(Len(str) - Len(substr)) :
        SubSeq(str, i + 1, i + Len(substr)) = substr

\* strings.Split(str, sep)[0] for a one-character sep
SplitFirst(str, sep) ==
    IF \E i \in 1..Len(str) : str[i] = sep
    THEN SubSeq(str, 1, (CHOOSE i \in 1..Len(str) :
                            /\ str[i] = sep
                            /\ \A j \in 1..(i - 1) : str[j] # sep) - 1)
    ELSE str

\* an optional value (a Go pointer): Nil, or Some(x) holding x
Nil == <<>>
Some(x) == <<x>>
Deref(p) == p[1]

-----------------------------------------------------------------------------
(* Events (events.Message): Info and the sub-payloads of Message *)

\* types.JID.String() of a user JID: user[:device]@server; the device number
\* is kept as its decimal digit, "0" for the primary device
JIDString(jid) ==
    IF jid.Device # "0"
    THEN jid.User \o <<":", jid.Device>> \o <<"@", jid.Server>>
    ELSE jid.User \o <<"@", jid.Server>>

UserServer == "s.whatsapp.net"

\* waProto.ContextInfo: StanzaID and Participant are optional strings,
\* QuotedMessage an optional message (only its presence is read)
ContextInfo(stanzaID, participant, quoted) ==
    [StanzaID |-> stanzaID, Participant |-> participant, QuotedMessage |-> quoted]

\* waProto.Message with none of its sub-payloads set
EmptyMessage ==
    [Conversation |-> <<>>, ExtendedTextMessage |-> Nil, ImageMessage |-> Nil,
     VideoMessage |-> Nil, AudioMessage |-> Nil, DocumentMessage |-> Nil,
     StickerMessage |-> Nil]

TextMessage(text) == [EmptyMessage EXCEPT !.Conversation = text]
ExtendedText(text, ci) ==
    [EmptyMessage EXCEPT !.ExtendedTextMessage = Some([Text |-> text, ContextInfo |-> ci])]
ImageMsg(caption, ci) ==
    [EmptyMessage EXCEPT !.ImageMessage = Some([Caption |-> caption, ContextInfo |-> ci])]
VideoMsg(ci) == [EmptyMessage EXCEPT !.VideoMessage = Some([ContextInfo |-> ci])]
AudioMsg(ci) == [EmptyMessage EXCEPT !.AudioMessage = Some([ContextInfo |-> ci])]
DocumentMsg(ci) == [EmptyMessage EXCEPT !.DocumentMessage = Some([ContextInfo |-> ci])]
StickerMsg(ci) == [EmptyMessage EXCEPT !.StickerMessage = Some([ContextInfo |-> ci])]

Event(id, isGroup, chat, sender, message) ==
    [Info |-> [ID |-> id, IsGroup |-> isGroup, Chat |-> chat, Sender |-> sender],
     Message |-> message]

-----------------------------------------------------------------------------
(* Group allow-list (adapter.go) *)

Star == <<"*">>

\* isGroupAllowed
isGroupAllowed(cfg, groupJID) ==
    IF Len(cfg.AllowedGroups) = 0 THEN FALSE
    ELSE IF \E i \in 1..Len(cfg.AllowedGroups) : cfg.AllowedGroups[i] = Star THEN TRUE
    ELSE \E i \in 1..Len(cfg.AllowedGroups) : Contains(groupJID, cfg.AllowedGroups[i])

-----------------------------------------------------------------------------
(* Reply-thread detector.  The source holds two revisions of isReplyToBot: *)
(* adapter_replies.go (the participant must contain the bot's user ID) and *)
(* unnamed/part_008 (a quoted message is required, and any reply in an     *)
(* allowed group counts).  getMessageContextInfo is the same in both.      *)

getMessageContextInfoTextOnly(evt) ==
    IF evt.Message.ExtendedTextMessage # Nil
    THEN Deref(evt.Message.ExtendedTextMessage).ContextInfo
    ELSE Nil

getMessageContextInfo(evt) ==
    IF evt.Message.ExtendedTextMessage # Nil
    THEN Deref(evt.Message.ExtendedTextMessage).ContextInfo
    ELSE IF evt.Message.ImageMessage # Nil
    THEN Deref(evt.Message.ImageMessage).ContextInfo
    ELSE IF evt.Message.VideoMessage # Nil
    THEN Deref(evt.Message.VideoMessage).ContextInfo
    ELSE IF evt.Message.AudioMessage # Nil
    THEN Deref(evt.Message.AudioMessage).ContextInfo
    ELSE IF evt.Message.DocumentMessage # Nil
    THEN Deref(evt.Message.DocumentMessage).ContextInfo
    ELSE Nil

\* adapter_replies.go
isReplyToBotContains(evt, bot) ==
    LET contextInfo == getMessageContextInfo(evt)
    IN  IF contextInfo = Nil THEN FALSE
        ELSE IF Deref(contextInfo).Participant # Nil
        THEN Contains(Deref(Deref(contextInfo).Participant), bot.User)
        ELSE FALSE

\* unnamed/part_008
isReplyToBotQuoted(evt, bot, cfg) ==
    LET contextInfo == getMessageContextInfo(evt)
    IN  IF contextInfo = Nil THEN FALSE
        ELSE IF Deref(contextInfo).QuotedMessage # Nil
        THEN LET replyToParticipant == Deref(Deref(contextInfo).Participant)
                 byParticipant ==
                    /\ Deref(contextInfo).Participant # Nil
                    /\ \/ Contains(replyToParticipant, bot.User)
                       \/ SplitFirst(SplitFirst(JIDString(bot), "@"), ":")
                            = SplitFirst(SplitFirst(replyToParticipant, "@"), ":")
             IN  byParticipant \/ isGroupAllowed(cfg, JIDString(evt.Info.Chat))
        ELSE FALSE

Revisions == {"adapter_replies", "part_008"}

isReplyToBot(rev, evt, bot, cfg) ==
    IF rev = "adapter_replies"
    THEN isReplyToBotContains(evt, bot)
    ELSE isReplyToBotQuoted(evt, bot, cfg)

-----------------------------------------------------------------------------
(* Configuration and identity *)

\* the wake words of the default configuration: "@sasi", "sasi", "Sasi"
AtSasi == <<"@", "s", "a", "s", "i">>
SasiLower == <<"s", "a", "s", "i">>
SasiUpper == <<"S", "a", "s", "i">>
DefaultTriggerWords == <<AtSasi, SasiLower, SasiUpper>>

\* an allow-list entry matching Group1
AllowG1 == <<"g", "1">>
AllowLists == {<<>>, <<Star>>, <<AllowG1>>}

\* WhatsAppConfig as the dispatcher reads it
Config(allowedGroups, foodEnabled, webEnabled) ==
    [TriggerWords |-> DefaultTriggerWords, TriggerWord |-> AtSasi,
     AllowedGroups |-> allowedGroups,
     FoodEnabled |-> foodEnabled, WebEnabled |-> webEnabled]

DefaultConfig == Config(<<AllowG1>>, TRUE, TRUE)

\* the bot's own JID (a.client.Store.ID) on its primary or a linked device
BotUser == <<"1", "2">>
BotJID(device) == [User |-> BotUser, Device |-> device, Server |-> UserServer]
BotIDs == {BotJID("0"), BotJID("5")}

\* the state of the components a specification does not exercise
ConfigInit ==
    /\ config = DefaultConfig
    /\ botID = BotJID("5")
    /\ revision = "adapter_replies"

NoEvent == <<"none">>

ReplyIdle ==
    /\ replyEvt = NoEvent
    /\ replyOut = <<"none">>

-----------------------------------------------------------------------------
(* MemoryDatabase and MemoryService (durable storage) *)

\* a row of the memories table; the id and the timestamps are not modelled
DbRow(userID, conversationID, content, useCount) ==
    [UserID |-> userID, ConversationID |-> conversationID,
     Content |-> content, UseCount |-> useCount]

\* MemoryDatabase.AddMemory: INSERT OR REPLACE under
\* UNIQUE(user_id, conversation_id, content)
SameFact(r, memory) ==
    /\ r.UserID = memory.UserID
    /\ r.ConversationID = memory.ConversationID
    /\ r.Content = memory.Content

\* a plain INSERT into a table without the UNIQUE constraint
DbInsert(rows, memory) == rows (+) SetToBag({memory})

DbAddMemory(rows, memory) ==
    [r \in {x \in BagToSet(rows) : ~SameFact(x, memory)} |-> rows[r]]
        (+) SetToBag({memory})

\* the retry loop of MemoryService.AddMemory from attempt `retries` on;
\* fails[i] says whether the i-th database write returns an error
RECURSIVE ServiceAddMemoryFrom(_, _, _, _)
ServiceAddMemoryFrom(rows, memory, fails, retries) ==
    IF retries >= MaxAttempts
    THEN [db |-> rows, err |-> TRUE, attempts |-> retries]
    ELSE IF ~fails[retries + 1]
    THEN [db |-> DbAddMemory(rows, memory), err |-> FALSE, attempts |-> retries + 1]
    ELSE ServiceAddMemoryFrom(rows, memory, fails, retries + 1)

\* MemoryService.AddMemory: the new rows, the error, the attempts made
ServiceAddMemory(rows, userID, conversationID, content, fails) ==
    ServiceAddMemoryFrom(rows, DbRow(userID, conversationID, content, 1), fails, 0)

FailPatterns == [1..MaxAttempts -> BOOLEAN]

-----------------------------------------------------------------------------
(* Conversation registry *)

\* a Conversation created at time t
NewConversation(conversationID, groupJID, groupName, t) ==
    [ID |-> conversationID, GroupID |-> groupJID, GroupName |-> groupName,
     Messages |-> <<>>, LastActivity |-> t]

-----------------------------------------------------------------------------
(* Operations of the store as actions; each leaves nOps and the variables *)
(* of the other components to the specification that uses it              *)

StoreInit ==
    /\ memories = EmptyMap
    /\ context = EmptyMap
    /\ ret = <<"none">>
    /\ ctxLog = EmptyMap
    /\ nOps = 0

DoAddContextMessage(u, c, line) ==
    /\ context' = AddContextMessage(context, u, c, line)
    /\ ctxLog' = LogAppend(ctxLog, createSessionKey(u, c), line,
                           Len(CtxOf(createSessionKey(u, c))))
    /\ ret' = <<"void">>
    /\ UNCHANGED memories

DoExtractMemories(u, c, um, br) ==
    /\ context' = ExtractMemories(context, u, c, um, br)
    /\ ctxLog' = LogAppend(
                    LogAppend(ctxLog, createSessionKey(u, c), UserLine(um),
                              Len(CtxOf(createSessionKey(u, c)))),
                    createSessionKey(u, c), BotLine(br),
                    Min(MaxContext, Len(CtxOf(createSessionKey(u, c))) + 1))
    /\ ret' = <<"void">>
    /\ UNCHANGED memories

DoGetContext(u, c) ==
    /\ ret' = <<"context", GetContext(context, u, c)>>
    /\ UNCHANGED <<memories, context, ctxLog>>

DoClearContext(u, c) ==
    /\ context' = ClearContext(context, u, c)
    /\ ctxLog' = MapDelete(ctxLog, createSessionKey(u, c))
    /\ ret' = <<"void">>
    /\ UNCHANGED memories

DoDeleteContextMessage(c, u, index) ==
    LET r == DeleteContextMessage(context, c, u, index)
        k == createSessionKey(u, c)
    IN  /\ context' = r[1]
        /\ ret' = <<"bool", r[2]>>
        /\ ctxLog' = IF r[2] THEN LogRemove(ctxLog, k, index) ELSE ctxLog
        /\ UNCHANGED memories

DoAddMemory(u, c, content) ==
    /\ memories' = AddMemory(memories, u, c, content)
    /\ ret' = <<"void">>
    /\ UNCHANGED <<context, ctxLog>>

DoGetMemories(u, c) ==
    LET r == GetMemories(memories, u, c)
    IN  /\ memories' = r[1]
        /\ ret' = <<"memories", r[2]>>
        /\ UNCHANGED <<context, ctxLog>>

\* an admin operation that adds to the store first, as PersistMemory does,
\* and then to the table
DoAdminAddMemoryStoreFirst(c, u, content, fails) ==
    IF c \notin DOMAIN conversations
    THEN /\ ret' = <<"bool", FALSE>>
         /\ UNCHANGED <<memories, context, ctxLog, db>>
    ELSE /\ memories' = AddMemory(memories, u, c, content)
         /\ db' = IF memoryService THEN ServiceAddMemory(db, u, c, content, fails).db ELSE db
         /\ ret' = <<"bool", ~(memoryService /\ ServiceAddMemory(db, u, c, content, fails).err)>>
         /\ UNCHANGED <<context, ctxLog>>

\* WhatsAppAdapter.AddMemory (the admin operation)
DoAdminAddMemory(c, u, content, fails) ==
    IF c \notin DOMAIN conversations
    THEN /\ ret' = <<"bool", FALSE>>
         /\ UNCHANGED <<memories, context, ctxLog, db>>
    ELSE IF memoryService
    THEN LET r == ServiceAddMemory(db, u, c, content, fails)
         IN  IF r.err
             THEN /\ ret' = <<"bool", FALSE>>
                  /\ db' = r.db
                  /\ UNCHANGED <<memories, context, ctxLog>>
             ELSE /\ db' = r.db
                  /\ memories' = AddMemory(memories, u, c, content)
                  /\ ret' = <<"bool", TRUE>>
                  /\ UNCHANGED <<context, ctxLog>>
    ELSE /\ memories' = AddMemory(memories, u, c, content)
         /\ ret' = <<"bool", TRUE>>
         /\ UNCHANGED <<context, ctxLog, db>>

-----------------------------------------------------------------------------
(* Inbound dispatcher: handleMessage (adapter.go) and the predicates it    *)
(* consults.  The cleaned message handed to the plain-chat task is a local *)
(* value of the callback and is not kept.                                  *)

\* the keywords the handlers look for
AtImg == <<"@", "i", "m", "g">>
AtImage == <<"@", "i", "m", "a", "g", "e">>
AtFamily == <<"@", "f", "a", "m", "i", "l", "y">>
AtFood == <<"@", "f", "o", "o", "d">>
AtWeb == <<"@", "w", "e", "b">>

\* getMessageText: the caption of an image is not read
getMessageText(evt) ==
    IF evt.Message.Conversation # <<>>
    THEN evt.Message.Conversation
    ELSE IF evt.Message.ExtendedTextMessage # Nil
    THEN Deref(evt.Message.ExtendedTextMessage).Text
    ELSE <<>>

\* hasImage (image_analysis.go)
hasImage(evt) == evt.Message.ImageMessage # Nil

\* the loop over a.config.TriggerWords
hasTriggerWord(cfg, message) ==
    \E i \in 1..Len(cfg.TriggerWords) :
        Contains(ToLower(message), ToLower(cfg.TriggerWords[i]))

\* isMention as handleMessage computes it, with the deprecated single word
isMention(cfg, message) ==
    /\ message # <<>>
    /\ \/ hasTriggerWord(cfg, message)
       \/ /\ cfg.TriggerWord # <<>>
          /\ Contains(ToLower(message), ToLower(cfg.TriggerWord))

\* isComfyUIRequest: extractComfyUIRequest(message).IsValid
isComfyUIRequest(message) ==
    /\ Contains(ToLower(message), AtSasi)
    /\ Contains(ToLower(message), AtImg)

\* isImageGenerationRequest
isImageGenerationRequest(message) ==
    /\ Contains(ToLower(message), AtSasi)
    /\ Contains(ToLower(message), AtImage)

\* isFamilyRequest
isFamilyRequest(message) == Contains(ToLower(message), AtFamily)

\* isFoodRequest
isFoodRequest(cfg, message) ==
    IF ~cfg.FoodEnabled THEN FALSE
    ELSE Contains(ToLower(message), AtFood)

\* isWebRequest
isWebRequest(cfg, message) ==
    IF ~cfg.WebEnabled THEN FALSE
    ELSE Contains(ToLower(message), AtWeb) /\ hasTriggerWord(cfg, message)

\* the cascade of handleMessage without its food check
PipelineWithoutFood(cfg, message, image, reply) ==
    LET hasMessageText == message # <<>>
        mention == isMention(cfg, message)
    IN  IF ~mention /\ ~reply THEN "not_addressed"
        ELSE IF hasMessageText /\ isComfyUIRequest(message) THEN "comfyui"
        ELSE IF hasMessageText /\ isImageGenerationRequest(message) THEN "imagegen"
        ELSE IF hasMessageText /\ isFamilyRequest(message) THEN "family"
        ELSE IF image /\ reply THEN "imageanalysis"
        ELSE IF image /\ hasMessageText /\ mention THEN "imageanalysis"
        ELSE IF image /\ ~hasMessageText THEN "no_text"
        ELSE IF ~hasMessageText THEN "no_text"
        ELSE IF hasMessageText /\ isWebRequest(cfg, message) THEN "web"
        ELSE "chat"

\* handleMessage from the mention test to the go statement: the pipeline
\* started, or why the event was dropped
Pipeline(cfg, message, image, reply) ==
    LET hasMessageText == message # <<>>
        mention == isMention(cfg, message)
    IN  IF ~mention /\ ~reply THEN "not_addressed"
        ELSE IF hasMessageText /\ isComfyUIRequest(message) THEN "comfyui"
        ELSE IF hasMessageText /\ isImageGenerationRequest(message) THEN "imagegen"
        ELSE IF hasMessageText /\ isFamilyRequest(message) THEN "family"
        ELSE IF image /\ reply THEN "imageanalysis"
        ELSE IF image /\ hasMessageText /\ mention THEN "imageanalysis"
        ELSE IF image /\ ~hasMessageText THEN "no_text"
        ELSE IF ~hasMessageText THEN "no_text"
        ELSE IF hasMessageText /\ isFoodRequest(cfg, message) THEN "food"
        ELSE IF hasMessageText /\ isWebRequest(cfg, message) THEN "web"
        ELSE "chat"

Pipelines == {"comfyui", "imagegen", "family", "imageanalysis", "food", "web", "chat"}

\* The if statements of handleMessage from the mention test on, in the
\* order of the code: whether the condition holds, the task the body starts
\* with "go", and whether the body ends with "return".
Branch(taken, starts, returns) == [taken |-> taken, starts |-> starts, returns |-> returns]

\* a cascade whose food branch does not return after its go statement
BranchesFoodFallsThrough(cfg, message, image, reply) ==
    LET hasMessageText == message # <<>>
        mention == isMention(cfg, message)
    IN  << Branch(~mention /\ ~reply, "none", TRUE),
           Branch(hasMessageText /\ isComfyUIRequest(message), "comfyui", TRUE),
           Branch(hasMessageText /\ isImageGenerationRequest(message), "imagegen", TRUE),
           Branch(hasMessageText /\ isFamilyRequest(message), "family", TRUE),
           Branch(image /\ reply, "imageanalysis", TRUE),
           Branch(image /\ hasMessageText /\ mention, "imageanalysis", TRUE),
           Branch(image /\ ~hasMessageText, "none", TRUE),
           Branch(~hasMessageText, "none", TRUE),
           Branch(hasMessageText /\ isFoodRequest(cfg, message), "food", FALSE),
           Branch(hasMessageText /\ isWebRequest(cfg, message), "web", TRUE),
           Branch(TRUE, "chat", TRUE) >>

Branches(cfg, message, image, reply) ==
    LET hasMessageText == message # <<>>
        mention == isMention(cfg, message)
    IN  << Branch(~mention /\ ~reply, "none", TRUE),
           Branch(hasMessageText /\ isComfyUIRequest(message), "comfyui", TRUE),
           Branch(hasMessageText /\ isImageGenerationRequest(message), "imagegen", TRUE),
           Branch(hasMessageText /\ isFamilyRequest(message), "family", TRUE),
           Branch(image /\ reply, "imageanalysis", TRUE),
           Branch(image /\ hasMessageText /\ mention, "imageanalysis", TRUE),
           Branch(image /\ ~hasMessageText, "none", TRUE),
           Branch(~hasMessageText, "none", TRUE),
           Branch(hasMessageText /\ isFoodRequest(cfg, message), "food", TRUE),
           Branch(hasMessageText /\ isWebRequest(cfg, message), "web", TRUE),
           Branch(TRUE, "chat", TRUE) >>

\* the tasks started by running the if statements in order, up to the
\* first body that returns
RECURSIVE Started(_)
Started(branches) ==
    IF branches = <<>> THEN <<>>
    ELSE LET b == Head(branches)
             here == IF b.taken /\ b.starts # "none" THEN <<b.starts>> ELSE <<>>
         IN  IF b.taken /\ b.returns THEN here
             ELSE here \o Started(Tail(branches))

\* getOrCreateConversation; groupName is what getGroupName returned
getOrCreateConversation(convs, evt, groupName, t) ==
    LET groupJID == JIDString(evt.Info.Chat)
        conversationID == ConversationID(groupJID)
    IN  IF conversationID \in DOMAIN convs THEN convs
        ELSE MapPut(convs, conversationID,
                    NewConversation(conversationID, groupJID, groupName, t))

\* the calls of a.client.GetGroupInfo, a request to the WhatsApp servers,
\* that getOrCreateConversation makes through getGroupName: one for a
\* conversation it creates
getGroupNameCalls(convs, evt) ==
    IF ConversationID(JIDString(evt.Info.Chat)) \in DOMAIN convs THEN 0 ELSE 1

\* getGroupName: the name GetGroupInfo reports, jid.User when the lookup fails
ReportedName == <<"F", "a", "m">>
GroupNames(jid) == {jid.User, ReportedName}

\* sync.Map.LoadOrStore(key, true) on a map used as a set: the map after
\* the call and whether the key was loaded
LoadOnly(m, key) == <<m, key \in m>>

LoadOrStore(m, key) == <<m \cup {key}, key \in m>>

\* message IDs (evt.Info.ID); a message may arrive without one
EmptyID == <<>>
ID1 == <<"m", "1">>
ID2 == <<"m", "2">>
MsgIDs == {EmptyID, ID1, ID2}

Callbacks == {"cb1", "cb2"}

IdleCall ==
    [pc |-> "idle", evt |-> Nil, outcome |-> "none", external |-> 0, started |-> <<>>]

NoDedupLog == [id \in MsgIDs |-> [delivered |-> 0, passed |-> 0, skipped |-> 0]]

InboundIdle ==
    /\ processedMsgs = {}
    /\ calls = [c \in Callbacks |-> IdleCall]
    /\ dedupLog = NoDedupLog

\* the event handler is invoked with evt on goroutine c
DoDeliver(c, evt) ==
    /\ calls[c].pc = "idle"
    /\ calls' = [calls EXCEPT ![c] = [pc |-> "entered", evt |-> Some(evt),
                                      outcome |-> "none", external |-> 0,
                                      started |-> <<>>]]

\* handleMessage, the duplicate check
DoDedup(c) ==
    /\ calls[c].pc = "entered"
    /\ LET messageID == Deref(calls[c].evt).Info.ID
           r == LoadOrStore(processedMsgs, messageID)
       IN  IF messageID # <<>>
           THEN /\ processedMsgs' = r[1]
                /\ calls' = [calls EXCEPT ![c] =
                                IF r[2]
                                THEN [@ EXCEPT !.pc = "done", !.outcome = "duplicate"]
                                ELSE [@ EXCEPT !.pc = "accepted"]]
           ELSE /\ processedMsgs' = processedMsgs
                /\ calls' = [calls EXCEPT ![c].pc = "accepted"]

\* handleMessage after the duplicate check, up to its return
DoDispatch(c) ==
    /\ calls[c].pc = "accepted"
    /\ LET evt == Deref(calls[c].evt)
           groupJID == JIDString(evt.Info.Chat)
       IN  IF ~evt.Info.IsGroup
           THEN /\ calls' = [calls EXCEPT ![c] =
                                [@ EXCEPT !.pc = "done", !.outcome = "not_group"]]
                /\ UNCHANGED conversations
           ELSE IF ~isGroupAllowed(config, groupJID)
           THEN /\ calls' = [calls EXCEPT ![c] =
                                [@ EXCEPT !.pc = "done", !.outcome = "group_not_allowed"]]
                /\ UNCHANGED conversations
           ELSE /\ \E groupName \in GroupNames(evt.Info.Chat) :
                      conversations' = getOrCreateConversation(conversations, evt, groupName, now)
                /\ calls' = [calls EXCEPT ![c] =
                                [@ EXCEPT !.pc = "done",
                                          !.outcome =
                                              Pipeline(config, getMessageText(evt), hasImage(evt),
                                                       isReplyToBot(revision, evt, botID, config)),
                                          !.external = @ + getGroupNameCalls(conversations, evt),
                                          !.started =
                                              Started(Branches(config, getMessageText(evt),
                                                               hasImage(evt),
                                                               isReplyToBot(revision, evt, botID,
                                                                            config)))]]

\* the callback has returned
DoReturn(c) ==
    /\ calls[c].pc = "done"
    /\ calls' = [calls EXCEPT ![c] = IdleCall]

\* the texts of the events
MsgHello == <<"h", "e", "l", "l", "o">>
MsgWake == <<"@", "s", "a", "s", "i", " ", "h", "e", "l", "l", "o">>
MsgWakeUpper == <<"S", "A", "S", "I", " ", "h", "e", "l", "l", "o">>
MsgFood == <<"@", "s", "a", "s", "i", " ", "@", "f", "o", "o", "d", " ", "d", "o", "s", "a">>
MsgFoodUpper == <<"S", "a", "s", "i", " ", "@", "F", "O", "O", "D", " ", "d", "o", "s", "a">>
MsgFoodNoWake == <<"@", "f", "o", "o", "d", " ", "d", "o", "s", "a">>
MsgWeb == <<"@", "s", "a", "s", "i", " ", "@", "w", "e", "b", " ", "n", "e", "w", "s">>
MsgFoodWeb == <<"@", "s", "a", "s", "i", " ", "@", "w", "e", "b", " ", "@", "f", "o", "o", "d">>
MsgComfy == <<"@", "s", "a", "s", "i", " ", "@", "i", "m", "g", " ", "c", "a", "t">>
MsgImageGen == <<"@", "s", "a", "s", "i", " ", "@", "i", "m", "a", "g", "e", " ", "c", "a", "t">>
MsgFamily == <<"@", "s", "a", "s", "i", " ", "@", "f", "a", "m", "i", "l", "y", " ", "w", "h", "o">>
MsgFamilyFood == <<"@", "s", "a", "s", "i", " ", "@", "f", "a", "m", "i", "l", "y", " ", "@", "f", "o", "o", "d">>
CaptionWake == <<"@", "s", "a", "s", "i", " ", "w", "h", "a", "t">>

-----------------------------------------------------------------------------
(* Persistence sync (persistent_memory.go, memory_service.go) *)

\* MemoryService.SyncMemoriesFromCache reporting the error of the last
\* content only
SyncMemoriesFromCacheLastOnly(rows, userID, conversationID, contents, fails) ==
    LET n == Len(contents)
        AddAll[i \in 0..n] ==
            IF i = 0 THEN rows
            ELSE ServiceAddMemory(AddAll[i - 1], userID, conversationID,
                                  contents[i], fails[i]).db
    IN  [db |-> AddAll[n],
         err |-> n > 0 /\ ServiceAddMemory(AddAll[n - 1], userID, conversationID,
                                           contents[n], fails[n]).err]

\* MemoryService.SyncMemoriesFromCache: every content is added, an error
\* does not stop the loop, the last error is returned; fails[i] is the
\* failure pattern of the writes of the i-th content
SyncMemoriesFromCache(rows, userID, conversationID, contents, fails) ==
    LET n == Len(contents)
        Loop[i \in 0..n] ==
            IF i = 0 THEN [db |-> rows, err |-> FALSE]
            ELSE LET r == ServiceAddMemory(Loop[i - 1].db, userID, conversationID,
                                           contents[i], fails[i])
                 IN  [db |-> r.db, err |-> IF r.err THEN TRUE ELSE Loop[i - 1].err]
    IN  Loop[n]

\* SyncMemoryToDatabase: the rows afterwards and whether an error is returned
SyncMemoryToDatabase(mems, rows, service, userID, conversationID, fails) ==
    IF ~service THEN [db |-> rows, err |-> TRUE]
    ELSE LET key == createSessionKey(userID, conversationID)
             list == IF key \in DOMAIN mems THEN mems[key] ELSE <<>>
             contents == [i \in 1..Len(list) |-> list[i].Content]
         IN  SyncMemoriesFromCache(rows, userID, conversationID, contents, fails)

\* the orders in which a range over a Go map may yield its keys
KeyOrders(keys) ==
    {order \in [1..Cardinality(keys) -> keys] :
        \A i, j \in 1..Cardinality(keys) : order[i] = order[j] => i = j}

IdleSweep ==
    [pc |-> "idle", pairs |-> <<>>, i |-> 1, successCount |-> 0, failureCount |-> 0,
     reported |-> FALSE]

\* the most repeated sweeps over one unchanged store that the log counts
MaxRuns == 2

NoSyncLog == [startKeys |-> {}, entries |-> {}, startStore |-> EmptyMap, runs |-> 0]

SweepIdle ==
    /\ sweep = IdleSweep
    /\ syncLog = NoSyncLog

\* a sweep that collects the keys once: later sweeps go over the keys of
\* the first
DoSweepStartSameKeys ==
    /\ sweep.pc \in {"idle", "done"}
    /\ IF ~memoryService
       THEN /\ sweep' = [IdleSweep EXCEPT !.pc = "done"]
            /\ syncLog' = NoSyncLog
       ELSE \E order \in (IF sweep.pc = "done" THEN {sweep.pairs}
                           ELSE KeyOrders(DOMAIN memories)) :
               /\ sweep' = [IdleSweep EXCEPT !.pc = "running", !.pairs = order]
               /\ syncLog' = [startKeys |-> {order[i] : i \in 1..Len(order)},
                               entries |-> {},
                               startStore |-> memories,
                               runs |-> IF syncLog.startStore = memories
                                        THEN Min(syncLog.runs + 1, MaxRuns)
                                        ELSE 1]
    /\ UNCHANGED <<memories, db>>

\* syncAllMemories up to the start of its loop
DoSweepStart ==
    /\ sweep.pc \in {"idle", "done"}
    /\ IF ~memoryService
       THEN /\ sweep' = [IdleSweep EXCEPT !.pc = "done"]
            /\ syncLog' = NoSyncLog
       ELSE \E order \in KeyOrders(DOMAIN memories) :
               /\ sweep' = [IdleSweep EXCEPT !.pc = "running", !.pairs = order]
               /\ syncLog' = [startKeys |-> DOMAIN memories, entries |-> {},
                               startStore |-> memories,
                               runs |-> IF syncLog.startStore = memories
                                        THEN Min(syncLog.runs + 1, MaxRuns)
                                        ELSE 1]
    /\ UNCHANGED <<memories, db>>

\* one iteration of the loop of syncAllMemories
DoSweepKey ==
    /\ sweep.pc = "running"
    /\ sweep.i <= Len(sweep.pairs)
    /\ LET pair == sweep.pairs[sweep.i]
           n == Len(MemOf(pair))
       IN  \E fails \in [1..n -> FailPatterns] :
              LET r == SyncMemoryToDatabase(memories, db, memoryService,
                                            pair.UserID, pair.ConversationID, fails)
                  failed == \E j \in 1..n : \A a \in 1..MaxAttempts : fails[j][a]
              IN  /\ db' = r.db
                  /\ sweep' = [sweep EXCEPT
                                  !.i = @ + 1,
                                  !.successCount = IF r.err THEN @ ELSE @ + 1,
                                  !.failureCount = IF r.err THEN @ + 1 ELSE @]
                  /\ syncLog' = [syncLog EXCEPT
                                    !.entries = @ \cup {[key |-> pair, failed |-> failed]}]
    /\ UNCHANGED memories

\* syncAllMemories after its loop: the counts are logged
DoSweepFinish ==
    /\ sweep.pc = "running"
    /\ sweep.i > Len(sweep.pairs)
    /\ sweep' = [sweep EXCEPT !.pc = "done", !.reported = TRUE]
    /\ UNCHANGED <<memories, db, syncLog>>

-----------------------------------------------------------------------------
(* Rate limiter and sendReply.  The limiter is rate.NewLimiter(rate.Every( *)
(* time.Second), 10) of golang.org/x/time/rate; its source is not part of  *)
(* the repository and the token bucket below follows its documented        *)
(* behaviour.  Tokens are counted in ticks: one token is Interval ticks.   *)
(* sendReply on a disconnected client returns before the limiter and       *)
(* changes nothing; the result of SendMessage is only logged.              *)

Burst == 10
Interval == 2

\* NewLimiter: a full bucket
NewLimiter == [tokens |-> Burst * Interval, last |-> 0]

\* the tokens at time t
LimiterAdvance(lim, t) == Min(Burst * Interval, lim.tokens + (t - lim.last))

\* Limiter.Wait(ctx) with a context that is never cancelled: one token is
\* reserved, the call returns at readyAt
LimiterWait(lim, t) ==
    LET tokens == LimiterAdvance(lim, t) - Interval
        waitDuration == IF tokens < 0 THEN -tokens ELSE 0
    IN  [lim |-> [tokens |-> tokens, last |-> t],
         err |-> Burst < 1,
         readyAt |-> t + waitDuration]

\* sendReply without its call of Wait
sendReplyNoWait(lim, t) == [lim |-> lim, err |-> FALSE, readyAt |-> t]

\* sendReply: err := a.limiter.Wait(context.Background())
sendReplyWait(lim, t) == LimiterWait(lim, t)

LimiterIdle ==
    /\ limiter = NewLimiter
    /\ now = 0
    /\ sends = <<>>

-----------------------------------------------------------------------------
(* Outbound sends: the five functions that call client.SendMessage.  A     *)
(* task is the list of the steps it has still to take; a step belongs to   *)
(* the function call fn, and a return from that call drops its steps.      *)

Step(op, fn) == [op |-> op, fn |-> fn]

\* sendReply and sendImageAnalysisReply: connection check, Wait, SendMessage
sendReply(fn) == <<Step("connected", fn), Step("wait", fn), Step("send", fn)>>

sendImageAnalysisReply(fn) == <<Step("connected", fn), Step("wait", fn), Step("send", fn)>>

\* sendImageReply (ComfyUI): ReadFile, Wait, Upload, SendMessage
sendImageReply(fn) ==
    <<Step("external", fn), Step("wait", fn), Step("external", fn), Step("send", fn)>>

\* sendGeneratedImage: Upload, SendMessage; when SendMessage fails a text
\* reply is sent in its place
sendGeneratedImage(fn) == <<Step("external", fn), Step("sendOrReply", fn)>>

\* SendGroupMessage: connection check, allow-list, SendMessage
SendGroupMessage(fn) == <<Step("connected", fn), Step("allowed", fn), Step("send", fn)>>

\* processAndReplyWithImageGeneration: the notice, GenerateImage, then the
\* image; a failure of either is answered with a text reply
processAndReplyWithImageGeneration ==
    sendReply("notice") \o <<Step("generate", "pipeline")>> \o sendGeneratedImage("image")

OutKinds == {"reply", "analysis", "comfy", "imagegen", "group"}

StepsOf(kind) ==
    CASE kind = "reply" -> sendReply("reply")
      [] kind = "analysis" -> sendImageAnalysisReply("reply")
      [] kind = "comfy" -> sendImageReply("image")
      [] kind = "imagegen" -> processAndReplyWithImageGeneration
      [] kind = "group" -> SendGroupMessage("group")

\* the steps left after the call fn has returned
RECURSIVE ReturnFrom(_, _)
ReturnFrom(steps, fn) ==
    IF steps # <<>> /\ steps[1].fn = fn THEN ReturnFrom(Tail(steps), fn) ELSE steps

IdleTask ==
    [kind |-> "none", steps |-> <<>>, readyAt |-> -1, acquired |-> 0, sent |-> 0,
     group |-> <<>>]

OutIdle == outTask = IdleTask

\* a pipeline or the admin endpoint starts to send
DoOutStart(kind, group) ==
    /\ outTask.kind = "none"
    /\ outTask' = [IdleTask EXCEPT !.kind = kind, !.steps = StepsOf(kind), !.group = group]
    /\ UNCHANGED <<limiter, now>>

\* a.client.IsConnected(): the function returns when the client is not
\* connected
DoOutConnected ==
    /\ outTask.steps # <<>>
    /\ outTask.steps[1].op = "connected"
    /\ \E connected \in BOOLEAN :
          outTask' = [outTask EXCEPT
                         !.steps = IF connected THEN Tail(@)
                                   ELSE ReturnFrom(@, @[1].fn)]
    /\ UNCHANGED <<limiter, now>>

\* SendGroupMessage: the "@g.us" and allow-list checks
DoOutAllowed ==
    /\ outTask.steps # <<>>
    /\ outTask.steps[1].op = "allowed"
    /\ outTask' = [outTask EXCEPT
                      !.steps = IF /\ Contains(outTask.group, <<"@", GroupServer>>)
                                   /\ isGroupAllowed(config, outTask.group)
                                THEN Tail(@)
                                ELSE ReturnFrom(@, @[1].fn)]
    /\ UNCHANGED <<limiter, now>>

\* a.limiter.Wait is called: a token is reserved and the task blocks
DoOutWait ==
    /\ outTask.steps # <<>>
    /\ outTask.steps[1].op = "wait"
    /\ LET r == sendReplyWait(limiter, now)
       IN  /\ limiter' = r.lim
           /\ outTask' = [outTask EXCEPT
                             !.steps = IF r.err THEN ReturnFrom(@, @[1].fn)
                                       ELSE <<Step("blocked", @[1].fn)>> \o Tail(@),
                             !.readyAt = r.readyAt]
    /\ UNCHANGED now

\* Wait returns with the token
DoOutAcquire ==
    /\ outTask.steps # <<>>
    /\ outTask.steps[1].op = "blocked"
    /\ now >= outTask.readyAt
    /\ outTask' = [outTask EXCEPT !.steps = Tail(@), !.acquired = @ + 1]
    /\ UNCHANGED <<limiter, now>>

\* ReadFile, Upload, GenerateImage: on an error the function returns; after
\* a failed GenerateImage or a failed sendGeneratedImage the pipeline sends
\* its apology
DoOutExternal ==
    /\ outTask.steps # <<>>
    /\ outTask.steps[1].op \in {"external", "generate"}
    /\ \E ok \in BOOLEAN :
          outTask' = [outTask EXCEPT
                         !.steps =
                             IF ok THEN Tail(@)
                             ELSE IF @[1].op = "generate"
                             THEN sendReply("apology")
                             ELSE IF @[1].fn = "image" /\ outTask.kind = "imagegen"
                             THEN sendReply("apology")
                             ELSE ReturnFrom(@, @[1].fn)]
    /\ UNCHANGED <<limiter, now>>

\* a.client.SendMessage; sendGeneratedImage answers a failure with
\* sendReply and returns the error, the pipeline then sends its apology
DoOutSend ==
    /\ outTask.steps # <<>>
    /\ outTask.steps[1].op \in {"send", "sendOrReply"}
    /\ \E ok \in BOOLEAN :
          outTask' = [outTask EXCEPT
                         !.sent = @ + 1,
                         !.steps =
                             IF ok \/ @[1].op = "send" THEN Tail(@)
                             ELSE sendReply("fallback") \o sendReply("apology")]
    /\ UNCHANGED <<limiter, now>>

\* the task ends
DoOutReturn ==
    /\ outTask.kind # "none"
    /\ outTask.steps = <<>>
    /\ outTask' = IdleTask
    /\ UNCHANGED <<limiter, now>>

-----------------------------------------------------------------------------
(* MemoryService.AddMemory, one database write at a time *)

IdleRetry ==
    [pc |-> "idle", memory |-> Nil, retries |-> 0, err |-> FALSE,
     attempts |-> 0, failures |-> 0]

RetryIdle == retry = IdleRetry

\* AddMemory is called: the row is built and the loop entered
DoRetryCall(userID, conversationID, content) ==
    /\ retry.pc \in {"idle", "returned"}
    /\ retry' = [IdleRetry EXCEPT
                    !.pc = "loop",
                    !.memory = Some(DbRow(userID, conversationID, content, 1))]
    /\ UNCHANGED db

\* a loop body that does not return after a write without error
DoRetryWriteThrough(fails) ==
    /\ retry.pc = "loop"
    /\ retry.retries < MaxAttempts
    /\ retry' = [retry EXCEPT !.pc = "sleep", !.attempts = @ + 1,
                               !.failures = IF fails THEN @ + 1 ELSE @,
                               !.err = fails]
    /\ db' = IF fails THEN db ELSE DbAddMemory(db, Deref(retry.memory))

\* one pass of the loop body up to the sleep: the write and the test of its error
DoRetryWrite(fails) ==
    /\ retry.pc = "loop"
    /\ retry.retries < MaxAttempts
    /\ IF fails
       THEN /\ retry' = [retry EXCEPT !.pc = "sleep", !.attempts = @ + 1,
                                       !.failures = @ + 1, !.err = TRUE]
            /\ UNCHANGED db
       ELSE /\ retry' = [retry EXCEPT !.pc = "returned", !.attempts = @ + 1,
                                       !.err = FALSE]
            /\ db' = DbAddMemory(db, Deref(retry.memory))

\* time.Sleep returns and the loop counter is incremented
DoRetrySleep ==
    /\ retry.pc = "sleep"
    /\ retry' = [retry EXCEPT !.pc = "loop", !.retries = @ + 1]
    /\ UNCHANGED db

\* the loop condition fails: the last error is returned
DoRetryGiveUp ==
    /\ retry.pc = "loop"
    /\ retry.retries >= MaxAttempts
    /\ retry' = [retry EXCEPT !.pc = "returned"]
    /\ UNCHANGED db

-----------------------------------------------------------------------------
(* recordMessage (adapter.go); the whole body runs under a.mutex *)

\* adapter.go:507  "if len(conv.Messages) > 50"
MaxTranscript == 50

\* "conv.Messages[len(conv.Messages)-50:]" keeping the first lines instead
TrimTranscriptKeepFirst(s) ==
    IF Len(s) > MaxTranscript THEN SubSeq(s, 1, MaxTranscript) ELSE s

TrimTranscript(s) ==
    IF Len(s) > MaxTranscript
    THEN SubSeq(s, Len(s) - MaxTranscript + 1, Len(s))
    ELSE s

recordMessage(convs, conversationID, message, t) ==
    IF conversationID \notin DOMAIN convs THEN convs
    ELSE [convs EXCEPT ![conversationID] =
             [@ EXCEPT !.Messages = TrimTranscript(Append(@, message)),
                       !.LastActivity = t]]

NoRecLog == [lines |-> <<>>, at |-> -1]

RecLogIdle == recLog = [c \in Convs |-> NoRecLog]

DoRecordMessage(conversationID, message) ==
    /\ conversations' = recordMessage(conversations, conversationID, message, now)
    /\ recLog' = [recLog EXCEPT ![conversationID] =
                     IF conversationID \in DOMAIN conversations
                     THEN [lines |-> Append(@.lines, message), at |-> now]
                     ELSE @]

-----------------------------------------------------------------------------
(* The locks around the maps of the MemoryManager.  Every operation that   *)
(* touches m.memories or m.context is listed with the task that runs it,   *)
(* the mutex it takes (a: a.mutex of the adapter, m: m.mutex of the        *)
(* MemoryManager), the mode, and whether it changes the maps or their      *)
(* entries.                                                                *)

MapOp(name, task, lock, mode, writes) ==
    [name |-> name, task |-> task, lock |-> lock, mode |-> mode, writes |-> writes]

MapOps ==
    {MapOp("AddMemory", "message", "m", "W", TRUE),
     MapOp("GetMemories", "message", "m", "R", TRUE),
     MapOp("AddContextMessage", "message", "m", "W", TRUE),
     MapOp("GetContext", "message", "m", "R", FALSE),
     MapOp("ClearContext", "message", "m", "W", TRUE),
     MapOp("syncAllMemories", "sync", "a", "R", FALSE),
     MapOp("SyncMemoryToDatabase", "sync", "a", "R", FALSE),
     MapOp("DeleteMemory", "admin", "a", "W", TRUE),
     MapOp("ClearAllMemories", "admin", "a", "W", TRUE),
     MapOp("UpdateMemory", "admin", "a", "W", TRUE),
     MapOp("GetAllMemoryInfo", "admin", "a", "R", FALSE),
     MapOp("GetUsersInConversation", "admin", "m", "R", FALSE),
     MapOp("AdminAddMemory", "admin", "m", "W", TRUE)}

\* the sync task, an admin request and two per-message tasks
LockTasks == {"sync", "admin", "message1", "message2"}

KindOf(t) == IF t \in {"message1", "message2"} THEN "message" ELSE t

FreeMutex == [readers |-> {}, writer |-> Nil]

IdleTaskOp == [pc |-> "idle", op |-> Nil]

LocksIdle ==
    /\ mutexes = [l \in {"a", "m"} |-> FreeMutex]
    /\ tasks = [t \in LockTasks |-> IdleTaskOp]

\* sync.RWMutex: RLock succeeds without a writer, Lock on a free mutex
CanLock(mutex, mode) ==
    IF mode = "R" THEN mutex.writer = Nil
    ELSE mutex.writer = Nil /\ mutex.readers = {}

\* the operation takes its mutex and is at its accesses to the maps
DoMapOpLock(t, op) ==
    /\ tasks[t].pc = "idle"
    /\ op.task = KindOf(t)
    /\ CanLock(mutexes[op.lock], op.mode)
    /\ mutexes' = [mutexes EXCEPT ![op.lock] =
                      IF op.mode = "R"
                      THEN [@ EXCEPT !.readers = @ \cup {t}]
                      ELSE [@ EXCEPT !.writer = Some(t)]]
    /\ tasks' = [tasks EXCEPT ![t] = [pc |-> "access", op |-> Some(op)]]

\* the operation is through with the maps and releases its mutex
DoMapOpUnlock(t) ==
    /\ tasks[t].pc = "access"
    /\ LET op == Deref(tasks[t].op)
       IN  mutexes' = [mutexes EXCEPT ![op.lock] =
                         IF op.mode = "R"
                         THEN [@ EXCEPT !.readers = @ \ {t}]
                         ELSE [@ EXCEPT !.writer = Nil]]
    /\ tasks' = [tasks EXCEPT ![t] = IdleTaskOp]

-----------------------------------------------------------------------------
(* Clearing and reading back (memory_admin.go, persistent_memory.go) *)

DefaultUser == "default_user"

\* getUserIDsForConversation: the users with a memory list or a context
\* window in the conversation, and the default user
getUserIDsForConversation(mems, ctx, conversationID) ==
    {DefaultUser}
    \cup {k.UserID : k \in {x \in DOMAIN mems : x.ConversationID = conversationID}}
    \cup {k.UserID : k \in {x \in DOMAIN ctx : x.ConversationID = conversationID}}

\* the delete statements of the loop of ClearAllMemories on one of the maps
DeleteKeys(map, userIDs, conversationID) ==
    [k \in {x \in DOMAIN map :
               ~(x.ConversationID = conversationID /\ x.UserID \in userIDs)} |-> map[k]]

\* ClearAllMemories: false for an unknown conversation; the table is not
\* touched
DoClearAllMemories(conversationID) ==
    IF conversationID \notin DOMAIN conversations
    THEN /\ ret' = <<"bool", FALSE>>
         /\ UNCHANGED <<memories, context, ctxLog>>
    ELSE LET userIDs == getUserIDsForConversation(memories, context, conversationID)
         IN  /\ memories' = DeleteKeys(memories, userIDs, conversationID)
             /\ context' = DeleteKeys(context, userIDs, conversationID)
             /\ ctxLog' = DeleteKeys(ctxLog, userIDs, conversationID)
             /\ ret' = <<"bool", TRUE>>

\* the contents GetPersistentMemories returns: those of the in-memory list,
\* merged, when the memory service is set and its query succeeds, with
\* those of the rows of the user in the conversation.  The order of the
\* result (by last use) is not modelled.
PersistentContents(mems, rows, service, userID, conversationID, queryFails) ==
    LET key == createSessionKey(userID, conversationID)
        inMem == IF key \in DOMAIN mems
                 THEN {mems[key][i].Content : i \in 1..Len(mems[key])} ELSE {}
        stored == {r.Content : r \in {x \in BagToSet(rows) :
                                         /\ x.UserID = userID
                                         /\ x.ConversationID = conversationID}}
    IN  IF ~service \/ queryFails THEN inMem ELSE inMem \cup stored

-----------------------------------------------------------------------------
(* main and the sync task of Start.  main starts the adapter with          *)
(* context.Background(), whose Done channel never delivers, so the ticker   *)
(* branch is the only branch of the sync task that runs.  Two sweeps are    *)
(* not interleaved: Disconnect begins its sweep when the ticker's is over.  *)

RunningProc ==
    [pc |-> "running", connected |-> TRUE, sweeper |-> "none", finalSweeps |-> 0]

ProcIdle == proc = RunningProc

\* the client loses or regains its connection to WhatsApp
DoConnection ==
    /\ proc.pc # "exited"
    /\ proc' = [proc EXCEPT !.connected = ~@]

\* the sync task of Start: the ticker fires and syncAllMemories is called
DoTick ==
    /\ proc.pc # "exited"
    /\ proc.sweeper = "none"
    /\ DoSweepStart
    /\ proc' = [proc EXCEPT !.sweeper = IF memoryService THEN "ticker" ELSE "none"]

\* main receives the stop signal and shuts the HTTP server down
DoStop ==
    /\ proc.pc = "running"
    /\ proc' = [proc EXCEPT !.pc = "stopping"]

\* main after server.Shutdown: Disconnect is called on a connected adapter
\* only, then main returns
DoCheckConnected ==
    /\ proc.pc = "stopping"
    /\ proc' = [proc EXCEPT !.pc = IF proc.connected THEN "disconnect" ELSE "exited"]

\* Disconnect: the final sweep when the memory service is set, up to the
\* start of its loop
DoDisconnect ==
    /\ proc.pc = "disconnect"
    /\ proc.sweeper = "none"
    /\ IF memoryService
       THEN /\ DoSweepStart
            /\ proc' = [proc EXCEPT !.pc = "syncing", !.sweeper = "main"]
       ELSE /\ proc' = [proc EXCEPT !.pc = "exited"]
            /\ UNCHANGED <<memories, db, sweep, syncLog>>

\* the end of a sweep; after the sweep of Disconnect main returns
DoSweepEnd ==
    /\ proc.pc # "exited"
    /\ DoSweepFinish
    /\ proc' = IF proc.sweeper = "main"
               THEN [proc EXCEPT !.pc = "exited", !.sweeper = "none",
                                 !.finalSweeps = @ + 1]
               ELSE [proc EXCEPT !.sweeper = "none"]

-----------------------------------------------------------------------------
(* GetMemories one statement at a time.  The callers hold the read lock of *)
(* the MemoryManager, which admits any number of them at once, and         *)
(* "memories[i].UseCount++" is a load followed by a store of the same      *)
(* element of the slice shared by all of them.                             *)

Readers == {"t1", "t2"}

IdleReader == [pc |-> "idle", key |-> Nil, i |-> 1, loaded |-> 0]

ReadersIdle ==
    /\ readers = [t \in Readers |-> IdleReader]
    /\ useLog = EmptyMap

\* m.mutex.Lock() succeeds when no task holds the read lock
NoReader == \A t \in Readers : readers[t].pc = "idle"

\* AddMemory under the write lock
DoLockedAddMemory(u, c, content) ==
    /\ NoReader
    /\ DoAddMemory(u, c, content)
    /\ LET key == createSessionKey(u, c)
           cur == IF key \in DOMAIN useLog THEN useLog[key] ELSE <<>>
       IN  useLog' = MapPut(useLog, key, Append(cur, 0))
    /\ UNCHANGED readers

\* GetMemories: RLock, the key, and the lookup; a missing key returns at once
DoReadLock(t, u, c) ==
    /\ readers[t].pc = "idle"
    /\ LET key == createSessionKey(u, c)
       IN  readers' = [readers EXCEPT ![t] =
                          IF key \in DOMAIN memories /\ Len(memories[key]) > 0
                          THEN [pc |-> "load", key |-> Some(key), i |-> 1, loaded |-> 0]
                          ELSE [IdleReader EXCEPT !.pc = "unlock", !.key = Some(key)]]
    /\ UNCHANGED <<memories, useLog>>

\* "memories[i].UseCount++": the load
DoReadLoad(t) ==
    /\ readers[t].pc = "load"
    /\ readers' = [readers EXCEPT ![t].pc = "store",
                                  ![t].loaded =
                                     memories[Deref(readers[t].key)][readers[t].i].UseCount]
    /\ UNCHANGED <<memories, useLog>>

\* "memories[i].UseCount++": the store, and the next round of the loop
DoReadStore(t) ==
    /\ readers[t].pc = "store"
    /\ LET key == Deref(readers[t].key)
           i == readers[t].i
       IN  /\ memories' = [memories EXCEPT ![key][i].UseCount = readers[t].loaded + 1]
           /\ readers' = [readers EXCEPT
                             ![t].i = i + 1,
                             ![t].pc = IF i + 1 > Len(memories[key])
                                       THEN "unlock" ELSE "load"]
    /\ UNCHANGED useLog

\* GetMemories returns and the deferred RUnlock runs
DoReadUnlock(t) ==
    /\ readers[t].pc = "unlock"
    /\ LET key == Deref(readers[t].key)
       IN  useLog' = IF key \in DOMAIN useLog
                     THEN [useLog EXCEPT ![key] = [i \in 1..Len(@) |-> @[i] + 1]]
                     ELSE useLog
    /\ readers' = [readers EXCEPT ![t] = IdleReader]
    /\ UNCHANGED memories

-----------------------------------------------------------------------------
(* The webhook pipelines: food (food_handler.go), web search               *)
(* (web_handler.go) and family (memory.go).  A response body is one of the *)
(* shapes below around a string v; the reply is what sendReply is given.   *)

HookPipelines == {"food", "web", "family"}

\* [{"text": v}], [{"other": v}], [v], [], {"whatsapp_message": v},
\* {"response": v}, {"other": v}, and v itself, which is not JSON
BodyShapes ==
    {"items_text", "items_object", "items_scalar", "empty_array",
     "object_message", "object_response", "object_other", "raw"}

Body(shape, value) == [shape |-> shape, value |-> value]
Bodies == {Body(sh, v) : sh \in BodyShapes, v \in {"", "v"}}

\* what client.Post and ioutil.ReadAll end with
HttpResult(transport, read, status, body) ==
    [transport |-> transport, read |-> read, status |-> status, body |-> body]

HttpResults ==
    {HttpResult(tr, rd, st, b) :
        tr \in {"ok", "error"}, rd \in {"ok", "error"}, st \in {200, 500}, b \in Bodies}

Answer(text) == [kind |-> "answer", text |-> text]
Apology(why) == [kind |-> "apology", text |-> <<"sorry", why>>]
NoReply == [kind |-> "none", text |-> <<>>]

\* food: []FoodArrayItem with a text, else a generic array (the text of
\* its first item, else the item as JSON), else the raw body
FoodReply(body) ==
    CASE body.shape = "items_text" -> Answer(<<"text", body.value>>)
      [] body.shape \in {"items_object", "items_scalar"} ->
            Answer(<<"item", body.shape, body.value>>)
      [] OTHER -> Answer(<<"raw", body.shape, body.value>>)

\* web search: WebSearchResponse; an Unmarshal error and an empty
\* whatsapp_message are answered with an apology
WebReply(body) ==
    IF body.shape \notin {"object_message", "object_response", "object_other"}
    THEN Apology("parse")
    ELSE IF body.shape = "object_message" /\ body.value # ""
    THEN Answer(<<"text", body.value>>)
    ELSE Apology("empty")

\* family: FamilyResponse; an Unmarshal error is answered with an apology,
\* an object without a response with the empty text
FamilyReply(body) ==
    IF body.shape \notin {"object_message", "object_response", "object_other"}
    THEN Apology("parse")
    ELSE IF body.shape = "object_response"
    THEN Answer(<<"text", body.value>>)
    ELSE Answer(<<"text", "">>)

\* the reply of a webhook pipeline to the outcome of its request
HookReply(pipeline, result) ==
    IF result.transport = "error" THEN Apology("connect")
    ELSE IF result.read = "error" THEN Apology("read")
    ELSE IF result.status # 200 THEN Apology("status")
    ELSE CASE pipeline = "food" -> FoodReply(result.body)
           [] pipeline = "web" -> WebReply(result.body)
           [] pipeline = "family" -> FamilyReply(result.body)

IdleHook == [pc |-> "idle", pipeline |-> "none", result |-> Nil, reply |-> NoReply]

HookIdle == hook = IdleHook

\* a webhook pipeline from its request to its return: an answer is recorded
\* in the transcript with the message, then sent; an apology is only sent
DoHookTurn(pipeline, conversationID, message, result) ==
    LET reply == HookReply(pipeline, result)
    IN  /\ hook' = [pc |-> "done", pipeline |-> pipeline, result |-> Some(result),
                    reply |-> reply]
        /\ conversations' =
              IF reply.kind = "answer"
              THEN recordMessage(
                       recordMessage(conversations, conversationID,
                                     UserLine(message), now),
                       conversationID, BotLine(reply.text), now)
              ELSE conversations

-----------------------------------------------------------------------------
(* The plain-chat pipeline, processAndReply (adapter.go), one statement on *)
(* shared state at a time.  What the chat service does is an input: the    *)
(* chat is found or created or not, and SendMessage ends in an error, in   *)
(* no assistant message, or in a response.                                 *)

ChatTasks == {"p1", "p2"}

ChatResponse == "re"
PredefinedResponse == "pre"

IdleTurn ==
    [pc |-> "idle", user |-> "none", conv |-> <<>>, message |-> "none",
     isReplyToBot |-> FALSE, predefined |-> FALSE, prompt |-> Nil,
     reply |-> NoReply, failed |-> FALSE]

TurnsIdle == turns = [t \in ChatTasks |-> IdleTurn]

TurnKey(t) == createSessionKey(turns[t].user, turns[t].conv)

\* the task has returned: what is left of it is whether it failed and the
\* reply it sent
Returned(failed, reply) == [IdleTurn EXCEPT !.pc = "done", !.failed = failed, !.reply = reply]

\* handleMessage starts the task
DoChatStart(t, userID, conversationID, message, isReply, predefined) ==
    /\ turns[t].pc \in {"idle", "done"}
    /\ turns' = [turns EXCEPT ![t] =
                    [IdleTurn EXCEPT !.pc = "record_user", !.user = userID,
                                     !.conv = conversationID, !.message = message,
                                     !.isReplyToBot = isReply,
                                     !.predefined = predefined]]
    /\ UNCHANGED <<conversations, context, ctxLog, memories>>

\* a recordMessage call of the task, then on to pc `next`
ChatRecord(t, at, line, next) ==
    /\ turns[t].pc = at
    /\ conversations' = recordMessage(conversations, turns[t].conv, line, now)
    /\ turns' = [turns EXCEPT ![t].pc = next]
    /\ UNCHANGED <<context, ctxLog, memories>>

\* an AddContextMessage call of the task, then on to pc `next`
ChatContext(t, at, line, next) ==
    /\ turns[t].pc = at
    /\ context' = AddContextMessage(context, turns[t].user, turns[t].conv, line)
    /\ ctxLog' = LogAppend(ctxLog, TurnKey(t), line, Len(CtxOf(TurnKey(t))))
    /\ turns' = [turns EXCEPT ![t] = next]
    /\ UNCHANGED <<conversations, memories>>

DoChatRecordUser(t) ==
    ChatRecord(t, "record_user", UserLine(turns[t].message), "context_user")

DoChatContextUser(t) ==
    ChatContext(t, "context_user", UserLine(turns[t].message),
                [turns[t] EXCEPT !.pc = IF turns[t].predefined
                                        THEN "record_predefined" ELSE "get_chat"])

DoChatRecordPredefined(t) ==
    ChatRecord(t, "record_predefined", BotLine(PredefinedResponse), "context_predefined")

\* the predefined response is added to the context and sent
DoChatContextPredefined(t) ==
    ChatContext(t, "context_predefined", BotLine(PredefinedResponse),
                Returned(FALSE, Answer(PredefinedResponse)))

\* a pipeline that builds the prompt of every turn from the session
DoChatGetChatAlwaysContext(t, found) ==
    /\ turns[t].pc = "get_chat"
    /\ turns' = [turns EXCEPT ![t] =
                    IF ~found THEN Returned(TRUE, NoReply)
                    ELSE [@ EXCEPT !.pc = "get_context"]]
    /\ UNCHANGED <<conversations, context, ctxLog, memories>>

\* GetChat, and CreateChat when it fails; without a chat the task returns
DoChatGetChat(t, found) ==
    /\ turns[t].pc = "get_chat"
    /\ turns' = [turns EXCEPT ![t] =
                    IF ~found THEN Returned(TRUE, NoReply)
                    ELSE [@ EXCEPT !.pc = IF turns[t].isReplyToBot
                                          THEN "get_context" ELSE "send_message"]]
    /\ UNCHANGED <<conversations, context, ctxLog, memories>>

DoChatGetContext(t) ==
    /\ turns[t].pc = "get_context"
    /\ turns' = [turns EXCEPT ![t] =
                    [@ EXCEPT !.pc = "get_memories",
                              !.prompt = Some([context |->
                                                  GetContext(context, turns[t].user,
                                                             turns[t].conv),
                                               memories |-> <<>>])]]
    /\ UNCHANGED <<conversations, context, ctxLog, memories>>

DoChatGetMemories(t) ==
    LET r == GetMemories(memories, turns[t].user, turns[t].conv)
    IN  /\ turns[t].pc = "get_memories"
        /\ memories' = r[1]
        /\ turns' = [turns EXCEPT ![t] =
                        [@ EXCEPT !.pc = "send_message",
                                  !.prompt = Some([Deref(@) EXCEPT !.memories = r[2]])]]
        /\ UNCHANGED <<conversations, context, ctxLog>>

\* chatService.SendMessage and the search for the assistant's message
DoChatSendMessage(t, outcome) ==
    /\ turns[t].pc = "send_message"
    /\ turns' = [turns EXCEPT ![t] =
                    IF outcome = "response" THEN [@ EXCEPT !.pc = "record_bot"]
                    ELSE Returned(TRUE, NoReply)]
    /\ UNCHANGED <<conversations, context, ctxLog, memories>>

DoChatRecordBot(t) ==
    ChatRecord(t, "record_bot", BotLine(ChatResponse), "context_bot")

DoChatContextBot(t) ==
    ChatContext(t, "context_bot", BotLine(ChatResponse),
                [turns[t] EXCEPT !.pc = "extract_user"])

\* ExtractMemories: its two AddContextMessage calls, then sendReply
DoChatExtractUser(t) ==
    ChatContext(t, "extract_user", UserLine(turns[t].message),
                [turns[t] EXCEPT !.pc = "extract_bot"])

DoChatExtractBot(t) ==
    ChatContext(t, "extract_bot", BotLine(ChatResponse),
                Returned(FALSE, Answer(ChatResponse)))

-----------------------------------------------------------------------------
(* The lock calls of the operations, in the order of their code, on        *)
(* a.mutex ("a") and memoryManager.mutex ("m").  Both are sync.RWMutex: a  *)
(* Lock call announces itself and then waits for the readers and the       *)
(* writer to leave; an RLock call waits while a writer holds the mutex or  *)
(* has announced itself.                                                   *)

LockCall(lock, mode) == [act |-> "lock", lock |-> lock, mode |-> mode]
UnlockCall(lock) == [act |-> "unlock", lock |-> lock, mode |-> "-"]

Guarded(lock, mode) == <<LockCall(lock, mode), UnlockCall(lock)>>

\* an operation that holds a.mutex around what it does under m.mutex
Nested(outer, inner, times) ==
    <<LockCall("a", outer)>>
    \o (IF times = 2 THEN Guarded("m", inner) \o Guarded("m", inner)
        ELSE Guarded("m", inner))
    \o <<UnlockCall("a")>>

NestTasks == {"sync", "admin1", "admin2", "message"}

NestKind(t) == IF t \in {"admin1", "admin2"} THEN "admin" ELSE t

NestOps ==
    {"getOrCreateConversation", "recordMessage", "AddContextMessage", "GetContext",
     "GetMemories", "syncAllMemories", "SyncMemoryToDatabase", "GetAllMemoryInfo",
     "GetConversationDetails", "GetUsersInConversation", "GetUserMemories",
     "DeleteMemory", "DeleteContextMessage", "AddMemory"}

OpsOf(kind) ==
    CASE kind = "message" ->
            {"getOrCreateConversation", "recordMessage", "AddContextMessage",
             "GetContext", "GetMemories"}
      [] kind = "sync" -> {"syncAllMemories", "SyncMemoryToDatabase"}
      [] kind = "admin" ->
            {"GetAllMemoryInfo", "GetConversationDetails", "GetUsersInConversation",
             "GetUserMemories", "DeleteMemory", "DeleteContextMessage", "AddMemory"}

\* an adapter in which DeleteContextMessage takes m.mutex before a.mutex
LockCallsDeleteReversed(op) ==
    CASE op \in {"getOrCreateConversation", "recordMessage", "DeleteMemory"} ->
            Guarded("a", "W")
      [] op \in {"syncAllMemories", "SyncMemoryToDatabase", "GetAllMemoryInfo"} ->
            Guarded("a", "R")
      [] op = "AddContextMessage" -> Guarded("m", "W")
      [] op \in {"GetContext", "GetMemories"} -> Guarded("m", "R")
      [] op \in {"GetConversationDetails", "GetUserMemories"} -> Nested("R", "R", 2)
      [] op = "GetUsersInConversation" -> Nested("R", "R", 1)
      [] op = "DeleteContextMessage" ->
            <<LockCall("m", "W"), LockCall("a", "W"), UnlockCall("a"), UnlockCall("m")>>
      [] op = "AddMemory" -> Guarded("a", "R") \o Guarded("m", "W")

\* the lock and unlock calls of an operation
LockCalls(op) ==
    CASE op \in {"getOrCreateConversation", "recordMessage", "DeleteMemory"} ->
            Guarded("a", "W")
      [] op \in {"syncAllMemories", "SyncMemoryToDatabase", "GetAllMemoryInfo"} ->
            Guarded("a", "R")
      [] op = "AddContextMessage" -> Guarded("m", "W")
      [] op \in {"GetContext", "GetMemories"} -> Guarded("m", "R")
      [] op \in {"GetConversationDetails", "GetUserMemories"} -> Nested("R", "R", 2)
      [] op = "GetUsersInConversation" -> Nested("R", "R", 1)
      [] op = "DeleteContextMessage" -> Nested("W", "W", 1)
      [] op = "AddMemory" -> Guarded("a", "R") \o Guarded("m", "W")

FreeRWMutex == [readers |-> {}, writer |-> Nil, pending |-> {}]

IdleNest == [op |-> "none", calls |-> <<>>, held |-> <<>>]

NestIdle ==
    /\ rwlocks = [l \in {"a", "m"} |-> FreeRWMutex]
    /\ nest = [t \in NestTasks |-> IdleNest]

\* the task calls the operation
DoNestCall(t, op) ==
    /\ nest[t].op = "none"
    /\ nest' = [nest EXCEPT ![t] = [op |-> op, calls |-> LockCalls(op), held |-> <<>>]]
    /\ UNCHANGED rwlocks

\* the next call of the task, when it has one
NextCall(t) == Head(nest[t].calls)

AtCall(t, act, mode) ==
    /\ nest[t].calls # <<>>
    /\ NextCall(t).act = act
    /\ NextCall(t).mode = mode

\* RLock returns
CanRLock(t) ==
    /\ AtCall(t, "lock", "R")
    /\ rwlocks[NextCall(t).lock].writer = Nil
    /\ rwlocks[NextCall(t).lock].pending = {}

\* Lock announces the writer
CanAnnounce(t) ==
    /\ AtCall(t, "lock", "W")
    /\ t \notin rwlocks[NextCall(t).lock].pending

\* Lock returns
CanLockW(t) ==
    /\ AtCall(t, "lock", "W")
    /\ t \in rwlocks[NextCall(t).lock].pending
    /\ rwlocks[NextCall(t).lock].writer = Nil
    /\ rwlocks[NextCall(t).lock].readers = {}

\* the task returns from the call it is at, into the next one
Advance(t, held) ==
    nest' = [nest EXCEPT ![t] =
                IF Len(@.calls) = 1 THEN IdleNest
                ELSE [@ EXCEPT !.calls = Tail(@), !.held = held]]

DoRLock(t) ==
    /\ CanRLock(t)
    /\ rwlocks' = [rwlocks EXCEPT ![NextCall(t).lock].readers = @ \cup {t}]
    /\ Advance(t, Append(nest[t].held, NextCall(t).lock))

DoAnnounce(t) ==
    /\ CanAnnounce(t)
    /\ rwlocks' = [rwlocks EXCEPT ![NextCall(t).lock].pending = @ \cup {t}]
    /\ UNCHANGED nest

DoLockW(t) ==
    /\ CanLockW(t)
    /\ rwlocks' = [rwlocks EXCEPT ![NextCall(t).lock] =
                       [@ EXCEPT !.writer = Some(t), !.pending = @ \ {t}]]
    /\ Advance(t, Append(nest[t].held, NextCall(t).lock))

\* Unlock and RUnlock
DoUnlock(t) ==
    /\ nest[t].calls # <<>>
    /\ NextCall(t).act = "unlock"
    /\ rwlocks' = [rwlocks EXCEPT ![NextCall(t).lock] =
                       [@ EXCEPT !.readers = @ \ {t},
                                 !.writer = IF @ = Some(t) THEN Nil ELSE @]]
    /\ Advance(t, SelectSeq(nest[t].held, LAMBDA l : l # NextCall(t).lock))

-----------------------------------------------------------------------------
(* Deleting from the table: ClearAllPersistentMemories and                 *)
(* DeletePersistentMemory (persistent_memory.go).  Neither touches the     *)
(* MemoryManager.                                                          *)

ForgottenIdle == forgotten = {}

\* a (user, conversation, content) triple
Fact(userID, conversationID, content) ==
    [UserID |-> userID, ConversationID |-> conversationID, Content |-> content]

FactOf(r) == Fact(r.UserID, r.ConversationID, r.Content)

\* DELETE FROM memories WHERE user_id = ? AND conversation_id = ?
DeleteAllMemoriesForUser(rows, userID, conversationID) ==
    [r \in {x \in BagToSet(rows) :
                ~(x.UserID = userID /\ x.ConversationID = conversationID)} |-> rows[r]]

\* GetAllMemoriesByConversation: the rows of the conversation ordered by
\* user_id, then last_used DESC; the table of the model keeps no last_used
\* and the rows of one user come in any order
UserBefore(u, v) == u = v \/ (u = "u1" /\ v = "u2")

ConversationRows(rows, conversationID) ==
    LET of == {r \in BagToSet(rows) : r.ConversationID = conversationID}
    IN  {order \in [1..Cardinality(of) -> of] :
            /\ \A i, j \in 1..Cardinality(of) : order[i] = order[j] => i = j
            /\ \A i, j \in 1..Cardinality(of) :
                  i < j => UserBefore(order[i].UserID, order[j].UserID)}

DoClearAllPersistentMemories(userID, conversationID, fails) ==
    /\ IF ~memoryService \/ fails
       THEN /\ ret' = <<"cleared", FALSE>>
            /\ UNCHANGED <<db, forgotten>>
       ELSE /\ db' = DeleteAllMemoriesForUser(db, userID, conversationID)
            /\ forgotten' = forgotten \cup
                  {FactOf(r) : r \in {x \in BagToSet(db) :
                        x.UserID = userID /\ x.ConversationID = conversationID}}
            /\ ret' = <<"cleared", TRUE>>
    /\ UNCHANGED <<memories, context, ctxLog>>

\* index is 0-based; queryFails and fails are the errors of the query and
\* of the DELETE
DoDeletePersistentMemory(conversationID, index, queryFails, fails) ==
    /\ IF ~memoryService \/ queryFails
       THEN /\ ret' = <<"deleted", FALSE>>
            /\ UNCHANGED <<db, forgotten>>
       ELSE \E dbMemories \in ConversationRows(db, conversationID) :
               IF index < 0 \/ index >= Len(dbMemories) \/ fails
               THEN /\ ret' = <<"deleted", FALSE>>
                    /\ UNCHANGED <<db, forgotten>>
               ELSE /\ db' = [r \in BagToSet(db) \ {dbMemories[index + 1]} |-> db[r]]
                    /\ forgotten' = forgotten \cup {FactOf(dbMemories[index + 1])}
                    /\ ret' = <<"deleted", TRUE>>
    /\ UNCHANGED <<memories, context, ctxLog>>

-----------------------------------------------------------------------------
(* The components of the later specifications, idle *)

OtherIdle == OutIdle /\ RetryIdle /\ ProcIdle /\ ReadersIdle /\ RecLogIdle /\ LocksIdle
    /\ HookIdle /\ TurnsIdle /\ NestIdle /\ ForgottenIdle

-----------------------------------------------------------------------------
(* SpecCtx: the context window of one session, long enough to overflow it *)

CtxUsers == {"u1"}
CtxConv == ConversationID(Group1)

CtxRoom(u, n) == Len(LogOf(createSessionKey(u, CtxConv))) + n <= MaxCtxLog

CtxFrame == UNCHANGED <<nOps, conversations, memoryService, db, configVars, inboundVars, sweepVars, limiterVars, replyVars, otherVars>>

CtxInit ==
    /\ StoreInit
    /\ conversations = EmptyMap
    /\ memoryService = FALSE
    /\ db = EmptyBag
    /\ ConfigInit
    /\ InboundIdle
    /\ SweepIdle
    /\ LimiterIdle
    /\ OtherIdle
    /\ ReplyIdle

CtxAddContextMessage ==
    \E u \in CtxUsers, line \in Lines :
        CtxRoom(u, 1) /\ DoAddContextMessage(u, CtxConv, line) /\ CtxFrame

CtxExtractMemories ==
    \E u \in CtxUsers, um \in Msgs, br \in Msgs :
        CtxRoom(u, 2) /\ DoExtractMemories(u, CtxConv, um, br) /\ CtxFrame

CtxGetContext ==
    \E u \in CtxUsers : DoGetContext(u, CtxConv) /\ CtxFrame

CtxClearContext ==
    \E u \in CtxUsers : DoClearContext(u, CtxConv) /\ CtxFrame

CtxDeleteContextMessage ==
    \E u \in CtxUsers, index \in -1..MaxContext :
        DoDeleteContextMessage(CtxConv, u, index) /\ CtxFrame

CtxNext ==
    \/ CtxAddContextMessage
    \/ CtxExtractMemories
    \/ CtxGetContext
    \/ CtxClearContext
    \/ CtxDeleteContextMessage

SpecCtx == CtxInit /\ [][CtxNext]_vars

\* C2: for every SessionKey, GetContext returns at most 10 entries, and they
\* are the most recently added surviving lines, oldest first: the lines
\* added since the last clear and not deleted, less the oldest ones that
\* adds to a full window pushed out.
C2_ContextWindow ==
    /\ \A u \in Users, c \in Convs :
         LET k == createSessionKey(u, c)
             got == GetContext(context, u, c)
         IN  /\ Len(got) <= MaxContext
             /\ got = SubSeq(LogOf(k), EvictedOf(k) + 1, Len(LogOf(k)))
    /\ ret[1] = "context" => Len(ret[2]) <= MaxContext

\* a session that overflowed its window, then lost a line to
\* DeleteContextMessage, and whose window was read
C2_Witness ==
    \E u \in Users, c \in Convs :
        LET k == createSessionKey(u, c)
        IN  /\ EvictedOf(k) >= 2
            /\ Len(LogOf(k)) = MaxContext + 1
            /\ ret = <<"context", CtxOf(k)>>
            /\ Len(CtxOf(k)) = MaxContext - 1
            /\ \E i, j \in 1..Len(CtxOf(k)) : CtxOf(k)[i] # CtxOf(k)[j]

-----------------------------------------------------------------------------
(* SpecStore: every operation of the store on every session, a few steps *)

StoreFrame == UNCHANGED <<conversations, memoryService, configVars, inboundVars, sweepVars, limiterVars, replyVars, otherVars>>

StoreSpecInit ==
    /\ StoreInit
    /\ conversations \in
         {EmptyMap,
          [c \in {ConversationID(Group1)} |-> NewConversation(c, Group1, GroupJID1.User, 0)]}
    /\ memoryService \in BOOLEAN
    /\ db = EmptyBag
    /\ ConfigInit
    /\ InboundIdle
    /\ SweepIdle
    /\ LimiterIdle
    /\ OtherIdle
    /\ ReplyIdle

StoreStep == nOps < MaxStoreOps /\ nOps' = nOps + 1

StoreAddMemory ==
    \E u \in Users, c \in Convs, content \in Contents :
        StoreStep /\ DoAddMemory(u, c, content) /\ StoreFrame /\ UNCHANGED db

StoreGetMemories ==
    \E u \in Users, c \in Convs :
        StoreStep /\ DoGetMemories(u, c) /\ StoreFrame /\ UNCHANGED db

StoreAddContextMessage ==
    \E u \in Users, c \in Convs, line \in Lines :
        StoreStep /\ DoAddContextMessage(u, c, line) /\ StoreFrame /\ UNCHANGED db

StoreExtractMemories ==
    \E u \in Users, c \in Convs, um \in Msgs, br \in Msgs :
        StoreStep /\ DoExtractMemories(u, c, um, br) /\ StoreFrame /\ UNCHANGED db

StoreGetContext ==
    \E u \in Users, c \in Convs :
        StoreStep /\ DoGetContext(u, c) /\ StoreFrame /\ UNCHANGED db

StoreClearContext ==
    \E u \in Users, c \in Convs :
        StoreStep /\ DoClearContext(u, c) /\ StoreFrame /\ UNCHANGED db

StoreDeleteContextMessage ==
    \E u \in Users, c \in Convs, index \in -1..MaxStoreOps :
        StoreStep /\ DoDeleteContextMessage(c, u, index) /\ StoreFrame /\ UNCHANGED db

StoreAdminAddMemory ==
    \E u \in Users, c \in Convs, content \in Contents, fails \in FailPatterns :
        StoreStep /\ DoAdminAddMemory(c, u, content, fails) /\ StoreFrame

StoreNext ==
    \/ StoreAddMemory
    \/ StoreGetMemories
    \/ StoreAddContextMessage
    \/ StoreExtractMemories
    \/ StoreGetContext
    \/ StoreClearContext
    \/ StoreDeleteContextMessage
    \/ StoreAdminAddMemory

SpecStore == StoreSpecInit /\ [][StoreNext]_vars

\* C3: no SessionKey holds two Memory entries with the same content; adding
\* the same content twice yields one Memory.
C3_UniqueContent ==
    \A k \in DOMAIN memories :
        \A i, j \in 1..Len(memories[k]) :
            memories[k][i].Content = memories[k][j].Content => i = j

ViewMemories(mems, k) == IF k \in DOMAIN mems THEN mems[k] ELSE <<>>
ViewContext(ctx, k) == IF k \in DOMAIN ctx THEN ctx[k] ELSE <<>>

\* one of AddMemory, GetMemories, AddContextMessage, GetContext,
\* ClearContext, DeleteContextMessage happens on session (u, c)
StoreOpOn(u, c) ==
    \/ \E content \in Contents : DoAddMemory(u, c, content)
    \/ DoGetMemories(u, c)
    \/ \E line \in Lines : DoAddContextMessage(u, c, line)
    \/ DoGetContext(u, c)
    \/ DoClearContext(u, c)
    \/ \E index \in -1..MaxStoreOps : DoDeleteContextMessage(c, u, index)

\* the memory list and the context window of session (u, c) stay as they are
SessionUnchanged(u, c) ==
    LET k == createSessionKey(u, c)
    IN  /\ (k \in DOMAIN memories') = (k \in DOMAIN memories)
        /\ (k \in DOMAIN context') = (k \in DOMAIN context)
        /\ ViewMemories(memories', k) = ViewMemories(memories, k)
        /\ ViewContext(context', k) = ViewContext(context, k)

\* C10: a store operation on session (u, c) leaves the memory list and the
\* context window of every other session unchanged: another user of the
\* same conversation, the same user in another conversation.
C10_SessionIsolation ==
    [][\A u \in Users, c \in Convs :
          StoreOpOn(u, c) =>
              \A u2 \in Users, c2 \in Convs :
                  (u2 # u \/ c2 # c) => SessionUnchanged(u2, c2)]_vars

\* three sessions hold data (two users of one conversation, one user in two
\* conversations) and the last operation changed one of them
C10_Witness ==
    /\ nOps = 3
    /\ ViewMemories(memories, createSessionKey("u1", ConversationID(Group1))) # <<>>
    /\ ViewContext(context, createSessionKey("u2", ConversationID(Group1))) # <<>>
    /\ ViewMemories(memories, createSessionKey("u1", ConversationID(Group2))) # <<>>
    /\ ret = <<"void">>

-----------------------------------------------------------------------------
(* SpecReply: isReplyToBot applied to every kind of event, for both bot    *)
(* identities, every allow-list and both revisions of the function         *)

\* quoted participants: the bot, the bot on a linked device, a user whose
\* number contains the bot's as a substring, an unrelated user
PartBot == <<"1", "2", "@", UserServer>>
PartBotDevice == <<"1", "2", ":", "7", "@", UserServer>>
PartSuperstring == <<"9", "1", "2", "@", UserServer>>
PartOther == <<"3", "4", "@", UserServer>>
Participants == {PartBot, PartBotDevice, PartSuperstring, PartOther}

Quoted == Some("quoted")
Stanza == Some(<<"s", "t">>)

CtxInfos ==
    {Nil} \cup
    {Some(ContextInfo(IF q = Nil THEN Nil ELSE Stanza, p, q)) :
        p \in {Some(j) : j \in Participants} \cup {Nil}, q \in {Nil, Quoted}}

Hi == <<"h", "i">>

ReplyMessages ==
    {TextMessage(Hi)}
    \cup {ExtendedText(Hi, ci) : ci \in CtxInfos}
    \cup {ImageMsg(<<>>, ci) : ci \in CtxInfos}
    \cup {VideoMsg(ci) : ci \in CtxInfos}
    \cup {AudioMsg(ci) : ci \in CtxInfos}
    \cup {DocumentMsg(ci) : ci \in CtxInfos}
    \cup {StickerMsg(ci) : ci \in CtxInfos}

ReplyEvents == {Event(<<"m", "1">>, TRUE, g, "u1", m) : g \in GroupJIDs, m \in ReplyMessages}

ReplyFrame ==
    UNCHANGED <<storeVars, registryVars, dbVars, configVars, inboundVars, sweepVars,
                limiterVars, replyEvt, otherVars>>

ReplyInit ==
    /\ StoreInit
    /\ conversations = EmptyMap
    /\ memoryService = FALSE
    /\ db = EmptyBag
    /\ config \in {Config(a, TRUE, TRUE) : a \in AllowLists}
    /\ InboundIdle
    /\ SweepIdle
    /\ LimiterIdle
    /\ OtherIdle
    /\ botID \in BotIDs
    /\ revision \in Revisions
    /\ replyEvt \in ReplyEvents
    /\ replyOut = <<"none">>

ReplyCall ==
    /\ replyOut = <<"none">>
    /\ replyOut' = <<"bool", isReplyToBot(revision, replyEvt, botID, config)>>
    /\ ReplyFrame

ReplyNext == ReplyCall

SpecReply == ReplyInit /\ [][ReplyNext]_vars

\* the reply metadata a text, image, video, audio or document payload
\* carries, Nil when the event has none of these payloads or the payload has
\* no ContextInfo
ReplyMetadata(evt) ==
    LET m == evt.Message
        carriers == <<m.ExtendedTextMessage, m.ImageMessage, m.VideoMessage,
                      m.AudioMessage, m.DocumentMessage>>
    IN  IF \E i \in 1..5 : carriers[i] # Nil
        THEN Deref(carriers[CHOOSE i \in 1..5 : carriers[i] # Nil]).ContextInfo
        ELSE Nil

\* the event quotes a message and names the participant who wrote it
NamesQuotedParticipant(evt) ==
    /\ ReplyMetadata(evt) # Nil
    /\ Deref(ReplyMetadata(evt)).QuotedMessage # Nil
    /\ Deref(ReplyMetadata(evt)).Participant # Nil

\* the participant the reply metadata names
QuotedParticipant(evt) == Deref(Deref(ReplyMetadata(evt)).Participant)

\* the event neither quotes a message nor names a participant
NoReplyMetadata(evt) ==
    \/ ReplyMetadata(evt) = Nil
    \/ /\ Deref(ReplyMetadata(evt)).QuotedMessage = Nil
       /\ Deref(ReplyMetadata(evt)).Participant = Nil

\* a JID without its server and without its device suffix
PrimaryIdentity(jid) == SplitFirst(SplitFirst(jid, "@"), ":")

\* C8: isReplyToBot returns true when a text, image, video, audio or
\* document payload quotes a message whose participant, device suffix
\* stripped, is the bot's own identity, and false when the event carries no
\* reply metadata.
C8_ReplyToBot ==
    replyOut # <<"none">> =>
        /\ (/\ NamesQuotedParticipant(replyEvt)
            /\ PrimaryIdentity(QuotedParticipant(replyEvt)) = botID.User)
               => replyOut = <<"bool", TRUE>>
        /\ NoReplyMetadata(replyEvt) => replyOut = <<"bool", FALSE>>

\* a document quoting a message the bot sent from another device was
\* recognised
C8_Witness ==
    /\ replyOut = <<"bool", TRUE>>
    /\ replyEvt.Message.DocumentMessage # Nil
    /\ NamesQuotedParticipant(replyEvt)
    /\ QuotedParticipant(replyEvt) = PartBotDevice
    /\ botID = BotJID("5")

\* C9: isReplyToBot returns false whenever the reply metadata names a
\* participant whose primary identity segment differs from the bot's, also
\* when the bot's identifier is a substring of that participant's.
C9_OtherParticipant ==
    (/\ replyOut # <<"none">>
     /\ ReplyMetadata(replyEvt) # Nil
     /\ Deref(ReplyMetadata(replyEvt)).Participant # Nil
     /\ PrimaryIdentity(QuotedParticipant(replyEvt)) # botID.User)
        => replyOut = <<"bool", FALSE>>

-----------------------------------------------------------------------------
(* SpecDedup: two concurrent deliveries of events, redelivered IDs included *)

MaxDeliveries == 4

DedupEvents ==
    {Event(id, TRUE, g, "u1", TextMessage(m)) :
        id \in MsgIDs, g \in GroupJIDs, m \in {MsgWake, MsgHello}}

Delivered == dedupLog[EmptyID].delivered + dedupLog[ID1].delivered + dedupLog[ID2].delivered

InboundFrame == UNCHANGED <<storeVars, dbVars, configVars, sweepVars, limiterVars, replyVars, otherVars>>

DedupInit ==
    /\ StoreInit
    /\ conversations = EmptyMap
    /\ memoryService = FALSE
    /\ db = EmptyBag
    /\ ConfigInit
    /\ InboundIdle
    /\ SweepIdle
    /\ LimiterIdle
    /\ OtherIdle
    /\ ReplyIdle

DedupDeliver ==
    \E c \in Callbacks, evt \in DedupEvents :
        /\ Delivered < MaxDeliveries
        /\ DoDeliver(c, evt)
        /\ dedupLog' = [dedupLog EXCEPT ![evt.Info.ID].delivered = @ + 1]
        /\ UNCHANGED <<processedMsgs, conversations>>
        /\ InboundFrame

DedupCheck ==
    \E c \in Callbacks :
        /\ DoDedup(c)
        /\ LET id == Deref(calls[c].evt).Info.ID
           IN  dedupLog' =
                   IF calls'[c].pc = "accepted"
                   THEN [dedupLog EXCEPT ![id].passed = @ + 1]
                   ELSE IF calls'[c].outcome = "duplicate"
                   THEN [dedupLog EXCEPT ![id].skipped = @ + 1]
                   ELSE dedupLog
        /\ UNCHANGED conversations
        /\ InboundFrame

DedupDispatch ==
    \E c \in Callbacks :
        DoDispatch(c) /\ UNCHANGED <<processedMsgs, dedupLog>> /\ InboundFrame

DedupReturn ==
    \E c \in Callbacks :
        DoReturn(c) /\ UNCHANGED <<processedMsgs, dedupLog, conversations>> /\ InboundFrame

DedupNext == DedupDeliver \/ DedupCheck \/ DedupDispatch \/ DedupReturn

SpecDedup == DedupInit /\ [][DedupNext]_vars

\* the callbacks holding an event with this ID that have not reached the
\* duplicate check
Pending(id) ==
    Cardinality({c \in Callbacks :
                    calls[c].pc = "entered" /\ Deref(calls[c].evt).Info.ID = id})

\* of the handleMessage calls delivered with this ID, exactly one proceeds
\* and every other one is skipped
OncePerID(id) ==
    /\ dedupLog[id].passed <= 1
    /\ dedupLog[id].passed + dedupLog[id].skipped = dedupLog[id].delivered - Pending(id)
    /\ dedupLog[id].passed + dedupLog[id].skipped >= 1 => dedupLog[id].passed = 1

\* C1 as stated: for every message ID, exactly one handleMessage call
\* proceeds past the deduplication check, every other call with that ID is
\* skipped.
C1_OncePerAnyID == \A id \in MsgIDs : OncePerID(id)

\* C1: for every non-empty message ID, however many handleMessage calls are
\* delivered with it, concurrently or in sequence, exactly one proceeds past
\* the deduplication check and every other one is skipped.
C1_OncePerNonEmptyID == \A id \in MsgIDs : id # EmptyID => OncePerID(id)

\* both callbacks ran at once with the same ID: one passed, one was skipped
C1_Witness ==
    /\ dedupLog[ID1].passed = 1
    /\ dedupLog[ID1].skipped = 1
    /\ \A c \in Callbacks :
          calls[c].pc \in {"accepted", "done"} /\ Deref(calls[c].evt).Info.ID = ID1
    /\ \E c \in Callbacks : calls[c].outcome = "duplicate"

-----------------------------------------------------------------------------
(* SpecRouter: one event at a time through handleMessage, for every        *)
(* configuration of the food and web services and every allow-list         *)

RouterCallback == "cb1"

ReplyToBot == Some(ContextInfo(Stanza, Some(PartBotDevice), Quoted))
ReplyToOther == Some(ContextInfo(Stanza, Some(PartOther), Quoted))
RouterCtxInfos == {Nil, ReplyToBot, ReplyToOther}

RouterMessages ==
    {TextMessage(m) :
        m \in {MsgHello, MsgWake, MsgWakeUpper, MsgFood, MsgFoodUpper, MsgFoodNoWake,
               MsgWeb, MsgFoodWeb, MsgComfy, MsgImageGen, MsgFamily, MsgFamilyFood}}
    \cup {ExtendedText(m, ci) : m \in {MsgHello, MsgWake, MsgFood}, ci \in RouterCtxInfos}
    \cup {ImageMsg(cap, ci) : cap \in {<<>>, CaptionWake}, ci \in RouterCtxInfos}
    \cup {VideoMsg(Nil), StickerMsg(Nil)}

DirectChat == [User |-> <<"3", "4">>, Device |-> "0", Server |-> UserServer]

RouterEvents ==
    {Event(id, TRUE, g, "u1", m) : id \in {EmptyID, ID1}, g \in GroupJIDs, m \in RouterMessages}
    \cup {Event(id, FALSE, DirectChat, "u1", m) : id \in {EmptyID, ID1}, m \in RouterMessages}

RouterConfigs == {Config(a, f, w) : a \in AllowLists, f \in BOOLEAN, w \in BOOLEAN}

RouterInit ==
    /\ StoreInit
    /\ conversations = EmptyMap
    /\ memoryService = FALSE
    /\ db = EmptyBag
    /\ config \in RouterConfigs
    /\ botID = BotJID("5")
    /\ revision \in Revisions
    /\ InboundIdle
    /\ SweepIdle
    /\ LimiterIdle
    /\ OtherIdle
    /\ ReplyIdle

RouterDeliver ==
    \E evt \in RouterEvents :
        /\ DoDeliver(RouterCallback, evt)
        /\ UNCHANGED <<processedMsgs, dedupLog, conversations>>
        /\ InboundFrame

RouterDedup == DoDedup(RouterCallback) /\ UNCHANGED <<dedupLog, conversations>> /\ InboundFrame

RouterDispatch == DoDispatch(RouterCallback) /\ UNCHANGED <<processedMsgs, dedupLog>> /\ InboundFrame

RouterReturn ==
    DoReturn(RouterCallback) /\ UNCHANGED <<processedMsgs, dedupLog, conversations>> /\ InboundFrame

RouterNext == RouterDeliver \/ RouterDedup \/ RouterDispatch \/ RouterReturn

SpecRouter == RouterInit /\ [][RouterNext]_vars

\* the callback has returned for an event that passed the duplicate check
\* and came from a group on the allow-list
Accepted(c) ==
    /\ calls[c].pc = "done"
    /\ calls[c].outcome # "duplicate"
    /\ Deref(calls[c].evt).Info.IsGroup
    /\ isGroupAllowed(config, JIDString(Deref(calls[c].evt).Info.Chat))

\* the text of a text message: the conversation field or the extended text
TextOf(evt) ==
    IF evt.Message.Conversation # <<>> THEN evt.Message.Conversation
    ELSE IF evt.Message.ExtendedTextMessage # Nil
    THEN Deref(evt.Message.ExtendedTextMessage).Text
    ELSE <<>>

HasKeyword(text, keyword) == Contains(ToLower(text), ToLower(keyword))

HasWakeWord(text) ==
    \E i \in 1..Len(config.TriggerWords) : HasKeyword(text, config.TriggerWords[i])

\* a text message with the food trigger and a wake word and none of the
\* comfy, image-generation and family triggers
FoodText(evt) ==
    /\ evt.Message.ImageMessage = Nil
    /\ HasKeyword(TextOf(evt), AtFood)
    /\ HasWakeWord(TextOf(evt))
    /\ ~HasKeyword(TextOf(evt), AtImg)
    /\ ~HasKeyword(TextOf(evt), AtImage)
    /\ ~HasKeyword(TextOf(evt), AtFamily)

\* C4 as stated: an accepted text message with the food trigger and a wake
\* word and no higher-priority trigger always goes to the food pipeline.
C4_FoodAlways ==
    \A c \in Callbacks :
        (Accepted(c) /\ FoodText(Deref(calls[c].evt))) => calls[c].outcome = "food"

\* C4: when the food service is enabled in the configuration, an accepted
\* text message with the food trigger and a wake word and no higher-priority
\* trigger goes to the food pipeline, never to the web search or the plain
\* chat.
C4_FoodWhenEnabled ==
    \A c \in Callbacks :
        (/\ Accepted(c)
         /\ FoodText(Deref(calls[c].evt))
         /\ config.FoodEnabled) => calls[c].outcome = "food"

\* a message with both the food and the web trigger went to the food
\* pipeline while the web service was enabled
C4_Witness ==
    /\ Accepted(RouterCallback)
    /\ Deref(calls[RouterCallback].evt).Message = TextMessage(MsgFoodWeb)
    /\ config.FoodEnabled
    /\ config.WebEnabled
    /\ calls[RouterCallback].outcome = "food"

\* C5: an accepted image event whose caption contains a wake word, from an
\* allowed group and not a reply to the bot, goes to the image-analysis
\* pipeline.
C5_CaptionedImage ==
    \A c \in Callbacks :
        (/\ Accepted(c)
         /\ Deref(calls[c].evt).Message.ImageMessage # Nil
         /\ HasWakeWord(Deref(Deref(calls[c].evt).Message.ImageMessage).Caption)
         /\ ReplyMetadata(Deref(calls[c].evt)) = Nil)
            => calls[c].outcome = "imageanalysis"

\* the callback returns at the test of the wake word and the reply: the
\* message is dropped
Dropped(c) ==
    /\ calls[c].pc = "accepted"
    /\ calls'[c].pc = "done"
    /\ calls'[c].outcome = "not_addressed"

\* C15: a step of handleMessage that drops a message, because it carries no
\* wake word and is no reply to the bot, leaves the conversation registry
\* with its transcripts and the session memory store as they were.
C15_DroppedNoEffect ==
    [][\A c \in Callbacks :
          Dropped(c) => /\ conversations' = conversations
                        /\ memories' = memories
                        /\ context' = context]_vars

\* C20: a handleMessage callback makes no call to an external collaborator:
\* whatever it does before it returns is local, and the pipeline it chose
\* runs in a task of its own.
C20_NoExternalCall == \A c \in Callbacks : calls[c].external = 0


\* the text, the image flag and the reply flag handleMessage routes on
RoutedText(c) == getMessageText(Deref(calls[c].evt))
RoutedImage(c) == hasImage(Deref(calls[c].evt))
RoutedReply(c) == isReplyToBot(revision, Deref(calls[c].evt), botID, config)

\* the first pipeline, in the order of the specification, whose predicate
\* the message matches
FirstMatch(c) ==
    LET text == RoutedText(c)
    IN  IF HasKeyword(text, AtSasi) /\ HasKeyword(text, AtImg) THEN "comfyui"
        ELSE IF HasKeyword(text, AtSasi) /\ HasKeyword(text, AtImage) THEN "imagegen"
        ELSE IF HasKeyword(text, AtFamily) THEN "family"
        ELSE IF RoutedImage(c) /\ (RoutedReply(c) \/ isMention(config, text))
        THEN "imageanalysis"
        ELSE IF config.FoodEnabled /\ HasKeyword(text, AtFood) THEN "food"
        ELSE IF config.WebEnabled /\ HasKeyword(text, AtWeb) /\ HasWakeWord(text) THEN "web"
        ELSE "chat"

\* C23: the pipeline an accepted event is dispatched to is the first, in
\* the order image-to-image, image generation, family, image analysis,
\* food, web search, whose predicate the message matches, and a message
\* that matches one of these is never dropped for want of a wake word; a
\* message that matches none goes to the plain chat when it carries a wake
\* word or replies to the bot.
C23_FirstMatchWins ==
    \A c \in Callbacks :
        Accepted(c) =>
            /\ FirstMatch(c) # "chat" => calls[c].outcome = FirstMatch(c)
            /\ (/\ FirstMatch(c) = "chat"
                /\ RoutedText(c) # <<>>
                /\ isMention(config, RoutedText(c)) \/ RoutedReply(c))
                  => calls[c].outcome = "chat"

\* C27: a handleMessage callback starts at most one pipeline task, the one
\* of the branch it took, and none when the event is dropped.
C27_OneTask ==
    \A c \in Callbacks :
        /\ Len(calls[c].started) <= 1
        /\ calls[c].outcome \in Pipelines <=> calls[c].started = <<calls[c].outcome>>
        /\ calls[c].pc # "done" => calls[c].started = <<>>

\* a message with the food and the web trigger, both services enabled,
\* started the food task only
C27_Witness ==
    /\ Accepted(RouterCallback)
    /\ Deref(calls[RouterCallback].evt).Message = TextMessage(MsgFoodWeb)
    /\ config.FoodEnabled
    /\ config.WebEnabled
    /\ calls[RouterCallback].started = <<"food">>

-----------------------------------------------------------------------------
(* SpecSweep: the store is filled, then syncAllMemories runs over it with  *)
(* any pattern of failing database writes; sweeps repeat                   *)

MaxSweepAdds == 2

SweepFrame ==
    UNCHANGED <<context, ctxLog, conversations, memoryService, configVars, inboundVars,
                limiterVars, replyVars, otherVars>>

SweepInit ==
    /\ StoreInit
    /\ conversations = EmptyMap
    /\ memoryService \in BOOLEAN
    /\ db = EmptyBag
    /\ ConfigInit
    /\ InboundIdle
    /\ SweepIdle
    /\ LimiterIdle
    /\ OtherIdle
    /\ ReplyIdle

SweepAddMemory ==
    \E u \in Users, c \in Convs, content \in Contents :
        /\ sweep.pc # "running"
        /\ nOps < MaxSweepAdds
        /\ nOps' = nOps + 1
        /\ DoAddMemory(u, c, content)
        /\ UNCHANGED <<db, sweep, syncLog>>
        /\ SweepFrame

SweepStart == DoSweepStart /\ UNCHANGED <<ret, nOps>> /\ SweepFrame

SweepKey == DoSweepKey /\ UNCHANGED <<ret, nOps>> /\ SweepFrame

SweepFinish == DoSweepFinish /\ UNCHANGED <<ret, nOps>> /\ SweepFrame

SweepNext == SweepAddMemory \/ SweepStart \/ SweepKey \/ SweepFinish

SpecSweep == SweepInit /\ [][SweepNext]_vars

SyncedKeys == {e.key : e \in syncLog.entries}
FailedKeys == {e.key : e \in {x \in syncLog.entries : x.failed}}

\* C7: a sweep attempts every key present at its start whichever writes
\* fail, and reports success_count = the keys whose sync succeeded,
\* failure_count = the keys with a failed write, their sum the number of keys.
C7_SweepCounts ==
    /\ sweep.pc = "running" =>
          /\ sweep.successCount + sweep.failureCount = sweep.i - 1
          /\ SyncedKeys = {sweep.pairs[j] : j \in 1..(sweep.i - 1)}
    /\ (sweep.pc = "done" /\ memoryService) =>
          /\ sweep.reported
          /\ SyncedKeys = syncLog.startKeys
          /\ sweep.failureCount = Cardinality(FailedKeys)
          /\ sweep.successCount = Cardinality(syncLog.startKeys \ FailedKeys)
          /\ sweep.successCount + sweep.failureCount = Cardinality(syncLog.startKeys)

\* the sweep over (u1, c1) and (u2, c1) where the writes of (u1, c1), synced
\* first, failed and those of (u2, c1) succeeded
C7_Witness ==
    /\ sweep.pc = "done"
    /\ sweep.reported
    /\ syncLog.startKeys = {createSessionKey("u1", ConversationID(Group1)),
                            createSessionKey("u2", ConversationID(Group1))}
    /\ sweep.pairs[1] = createSessionKey("u1", ConversationID(Group1))
    /\ FailedKeys = {createSessionKey("u1", ConversationID(Group1))}
    /\ sweep.successCount = 1
    /\ sweep.failureCount = 1
    /\ \E r \in BagToSet(db) : r.UserID = "u2"

\* the (user, conversation, content) triples held by the store
StoreFacts(mems) ==
    UNION {{Fact(k.UserID, k.ConversationID, mems[k][i].Content) :
                i \in 1..Len(mems[k])} : k \in DOMAIN mems}

RowsOf(rows, fact) == {r \in BagToSet(rows) : SameFact(r, fact)}

OneRowPerFact(rows, facts) ==
    /\ \A r \in BagToSet(rows) : CopiesIn(r, rows) = 1
    /\ \A r \in BagToSet(rows) :
          Fact(r.UserID, r.ConversationID, r.Content) \in facts
    /\ \A f \in facts : Cardinality(RowsOf(rows, f)) = 1

SweepComplete ==
    /\ sweep.pc = "done"
    /\ sweep.reported
    /\ sweep.failureCount = 0
    /\ syncLog.startStore = memories
    /\ DOMAIN memories # {}

\* C12: the table never holds two rows for one (user, conversation, content);
\* after a sweep without a failed key over a store that has not changed since,
\* it holds exactly one row for each triple of the store; and once it does,
\* every further step of a sweep over the unchanged store leaves it so.
C12_SyncIdempotent ==
    /\ [](\A r \in BagToSet(db) :
            /\ CopiesIn(r, db) = 1
            /\ Cardinality(RowsOf(db, r)) = 1)
    /\ [](SweepComplete => OneRowPerFact(db, StoreFacts(memories)))
    /\ [][(memories' = memories /\ OneRowPerFact(db, StoreFacts(memories)))
             => OneRowPerFact(db', StoreFacts(memories'))]_vars

\* a repeated sweep has completed over an unchanged store that holds one
\* content twice
C12_Witness ==
    /\ SweepComplete
    /\ syncLog.runs = MaxRuns
    /\ \E k \in DOMAIN memories :
          \E i, j \in 1..Len(memories[k]) :
             i # j /\ memories[k][i].Content = memories[k][j].Content
    /\ OneRowPerFact(db, StoreFacts(memories))

-----------------------------------------------------------------------------
(* SpecLimiter: sendReply calls issued at any pace against the full bucket *)

MaxSends == 12
MaxTime == 4

LimiterFrame ==
    UNCHANGED <<storeVars, registryVars, dbVars, configVars, inboundVars, sweepVars,
                replyVars, otherVars>>

LimiterInit ==
    /\ StoreInit
    /\ conversations = EmptyMap
    /\ memoryService = FALSE
    /\ db = EmptyBag
    /\ ConfigInit
    /\ InboundIdle
    /\ SweepIdle
    /\ LimiterIdle
    /\ OtherIdle
    /\ ReplyIdle

\* sendReply on a connected client up to the return of Wait, or up to its
\* blocking in Wait
LimIssue ==
    /\ Len(sends) < MaxSends
    /\ LET r == sendReplyWait(limiter, now)
       IN  /\ r.readyAt <= MaxTime
           /\ limiter' = r.lim
           /\ sends' = Append(sends,
                  [issuedAt |-> now, readyAt |-> r.readyAt, err |-> r.err,
                   passedAt |-> IF r.readyAt <= now THEN now ELSE -1])
    /\ UNCHANGED now
    /\ LimiterFrame

\* a blocked Wait returns and sendReply goes on to SendMessage
LimPass ==
    \E i \in 1..Len(sends) :
        /\ sends[i].passedAt = -1
        /\ now >= sends[i].readyAt
        /\ sends' = [sends EXCEPT ![i].passedAt = now]
        /\ UNCHANGED <<limiter, now>>
        /\ LimiterFrame

LimTick ==
    /\ now < MaxTime
    /\ now' = now + 1
    /\ UNCHANGED <<limiter, sends>>
    /\ LimiterFrame

LimiterNext == LimIssue \/ LimPass \/ LimTick

SpecLimiter == LimiterInit /\ [][LimiterNext]_vars

\* C6: from a full bucket the first Burst sends pass the limiter without
\* waiting; the send number Burst + k does not pass before k refill intervals
\* have elapsed since the first send, so the (Burst + 1)-th of a rapid
\* succession blocks; the limiter rejects no send.
C6_BurstThenWait ==
    \A i \in 1..Len(sends) :
        /\ ~sends[i].err
        /\ i <= Burst => sends[i].passedAt = sends[i].issuedAt
        /\ i > Burst =>
              /\ sends[i].readyAt >= sends[1].issuedAt + (i - Burst) * Interval
              /\ sends[i].passedAt # -1 => sends[i].passedAt >= sends[i].readyAt
              /\ sends[i].issuedAt < sends[1].issuedAt + Interval =>
                    sends[i].passedAt # sends[i].issuedAt

\* eleven sends were issued within the first interval: ten passed at once,
\* the eleventh passed one interval after the first
C6_Witness ==
    /\ Len(sends) = Burst + 1
    /\ sends[1].issuedAt = 0
    /\ sends[Burst + 1].issuedAt = 1
    /\ \A i \in 1..Burst : sends[i].passedAt = sends[i].issuedAt
    /\ sends[Burst + 1].passedAt = Interval

-----------------------------------------------------------------------------
(* SpecOut: one sending task after another, of every kind, while the       *)
(* clock runs and the bucket drains                                        *)

UserChat == <<"3", "4", "@", UserServer>>

OutFrame ==
    UNCHANGED <<retry, storeVars, registryVars, dbVars, configVars, inboundVars, sweepVars,
                sends, replyVars,
                proc,
                readers,
                useLog,
                recLog,
                mutexes,
                tasks,
                hook,
                turns,
                rwlocks,
                nest,
                forgotten>>

OutInit ==
    /\ StoreInit
    /\ conversations = EmptyMap
    /\ memoryService = FALSE
    /\ db = EmptyBag
    /\ ConfigInit
    /\ InboundIdle
    /\ SweepIdle
    /\ LimiterIdle
    /\ OtherIdle
    /\ ReplyIdle

OutStart ==
    \E kind \in OutKinds, group \in Groups \cup {UserChat} :
        /\ kind # "group" => group = Group1
        /\ DoOutStart(kind, IF kind = "group" THEN group ELSE <<>>)
        /\ OutFrame

OutConnected == DoOutConnected /\ OutFrame

OutAllowed == DoOutAllowed /\ OutFrame

OutWait == sendReplyWait(limiter, now).readyAt <= MaxTime /\ DoOutWait /\ OutFrame

OutAcquire == DoOutAcquire /\ OutFrame

OutExternal == DoOutExternal /\ OutFrame

OutSend == DoOutSend /\ OutFrame

OutReturn == DoOutReturn /\ OutFrame

OutTick ==
    /\ now < MaxTime
    /\ now' = now + 1
    /\ UNCHANGED <<limiter, outTask>>
    /\ OutFrame

OutNext ==
    \/ OutStart \/ OutConnected \/ OutAllowed \/ OutWait \/ OutAcquire
    \/ OutExternal \/ OutSend \/ OutReturn \/ OutTick

SpecOut == OutInit /\ [][OutNext]_vars

\* C11: a task that has sent a message to the network has before that
\* acquired a token of the rate limiter, whichever of the five send paths
\* it took.
C11_TokenBeforeSend == outTask.sent >= 1 => outTask.acquired >= 1

-----------------------------------------------------------------------------
(* SpecRetry: MemoryService.AddMemory called again and again, every write  *)
(* free to fail; a write and a sleep return                                *)

RetryFrame ==
    UNCHANGED <<storeVars, registryVars, memoryService, configVars, inboundVars,
                sweepVars, limiterVars, replyVars, outTask,
                proc,
                readers,
                useLog,
                recLog,
                mutexes,
                tasks,
                hook,
                turns,
                rwlocks,
                nest,
                forgotten>>

RetryInit ==
    /\ StoreInit
    /\ conversations = EmptyMap
    /\ memoryService = TRUE
    /\ db = EmptyBag
    /\ ConfigInit
    /\ InboundIdle
    /\ SweepIdle
    /\ LimiterIdle
    /\ OtherIdle
    /\ ReplyIdle

RetryCall ==
    \E u \in Users, c \in Convs, content \in Contents :
        DoRetryCall(u, c, content) /\ RetryFrame

RetryWrite == \E fails \in BOOLEAN : DoRetryWrite(fails) /\ RetryFrame

RetrySleep == DoRetrySleep /\ RetryFrame

RetryGiveUp == DoRetryGiveUp /\ RetryFrame

RetryNext == RetryCall \/ RetryWrite \/ RetrySleep \/ RetryGiveUp

SpecRetry ==
    /\ RetryInit
    /\ [][RetryNext]_vars
    /\ WF_vars(RetryWrite \/ RetrySleep \/ RetryGiveUp)

\* C13: a call of MemoryService.AddMemory writes at most MaxAttempts times;
\* no write follows a successful one and success is returned after it; the
\* call returns an error exactly when MaxAttempts writes failed; every call
\* returns.
C13_BoundedRetry ==
    /\ [](retry.attempts <= MaxAttempts)
    /\ [](retry.attempts - retry.failures \in {0, 1})
    /\ [](retry.attempts > retry.failures => retry.pc = "returned" /\ ~retry.err)
    /\ [](retry.pc = "returned" => (retry.err <=> retry.failures = MaxAttempts))
    /\ [](retry.pc = "returned" /\ retry.err => retry.attempts = MaxAttempts)
    /\ (retry.pc \in {"loop", "sleep"} ~> retry.pc = "returned")

\* a call has returned success on its last attempt, after two failed writes
C13_Witness ==
    /\ retry.pc = "returned"
    /\ ~retry.err
    /\ retry.attempts = MaxAttempts
    /\ retry.failures = MaxAttempts - 1

-----------------------------------------------------------------------------
(* SpecShutdown: the store is filled and swept by the ticker while the     *)
(* connection comes and goes; then main receives the stop signal           *)

\* the memories added before the stop signal
MaxShutAdds == 2

ShutFrame ==
    UNCHANGED <<context, ctxLog, conversations, memoryService, configVars, inboundVars,
                limiterVars, replyVars, outTask, retry,
                readers,
                useLog,
                recLog,
                mutexes,
                tasks,
                hook,
                turns,
                rwlocks,
                nest,
                forgotten>>

ShutInit ==
    /\ StoreInit
    /\ conversations = EmptyMap
    /\ memoryService \in BOOLEAN
    /\ db = EmptyBag
    /\ ConfigInit
    /\ InboundIdle
    /\ SweepIdle
    /\ LimiterIdle
    /\ OtherIdle
    /\ ReplyIdle

ShutAddMemory ==
    \E u \in Users, c \in Convs, content \in Contents :
        /\ proc.pc = "running"
        /\ sweep.pc # "running"
        /\ nOps < MaxShutAdds
        /\ nOps' = nOps + 1
        /\ DoAddMemory(u, c, content)
        /\ UNCHANGED <<db, sweep, syncLog, proc>>
        /\ ShutFrame

ShutConnection ==
    DoConnection /\ UNCHANGED <<storeVars, db, sweepVars>> /\ ShutFrame

ShutTick == DoTick /\ UNCHANGED <<ret, nOps>> /\ ShutFrame

ShutSweepKey ==
    /\ proc.pc # "exited"
    /\ DoSweepKey
    /\ UNCHANGED <<ret, nOps, proc>>
    /\ ShutFrame

ShutSweepEnd == DoSweepEnd /\ UNCHANGED <<ret, nOps>> /\ ShutFrame

ShutStop == DoStop /\ UNCHANGED <<storeVars, db, sweepVars>> /\ ShutFrame

ShutCheckConnected ==
    DoCheckConnected /\ UNCHANGED <<storeVars, db, sweepVars>> /\ ShutFrame

ShutDisconnect == DoDisconnect /\ UNCHANGED <<ret, nOps>> /\ ShutFrame

ShutNext ==
    \/ ShutAddMemory
    \/ ShutConnection
    \/ ShutTick
    \/ ShutSweepKey
    \/ ShutSweepEnd
    \/ ShutStop
    \/ ShutCheckConnected
    \/ ShutDisconnect

SpecShutdown == ShutInit /\ [][ShutNext]_vars

\* C14: when main has returned after the stop signal and a memory service
\* is set, exactly one sweep of the store was made on the way out.
C14_FinalSweep ==
    (proc.pc = "exited" /\ memoryService) => proc.finalSweeps = 1

-----------------------------------------------------------------------------
(* SpecReaders: tasks call GetMemories at the same time on a store that    *)
(* AddMemory fills                                                         *)

\* the memories added, and the GetMemories calls made, in a run
MaxReaderAdds == 2
MaxReads == 3

ReadersFrame ==
    UNCHANGED <<context, ctxLog, registryVars, dbVars, configVars, inboundVars,
                sweepVars, limiterVars, replyVars, outTask, retry, proc,
                recLog,
                mutexes,
                tasks,
                hook,
                turns,
                rwlocks,
                nest,
                forgotten>>

ReadersInit ==
    /\ StoreInit
    /\ conversations = EmptyMap
    /\ memoryService = FALSE
    /\ db = EmptyBag
    /\ ConfigInit
    /\ InboundIdle
    /\ SweepIdle
    /\ LimiterIdle
    /\ OtherIdle
    /\ ReplyIdle

\* nOps counts the GetMemories calls; the memories are counted in the store
Stored == LET Count[ks \in SUBSET DOMAIN memories] ==
                  IF ks = {} THEN 0
                  ELSE LET k == CHOOSE x \in ks : TRUE
                       IN  Len(memories[k]) + Count[ks \ {k}]
          IN  Count[DOMAIN memories]

ReadersAdd ==
    \E u \in Users, content \in Contents :
        /\ Stored < MaxReaderAdds
        /\ DoLockedAddMemory(u, ConversationID(Group1), content)
        /\ UNCHANGED nOps
        /\ ReadersFrame

ReadersLock ==
    \E t \in Readers, u \in Users :
        /\ nOps < MaxReads
        /\ nOps' = nOps + 1
        /\ DoReadLock(t, u, ConversationID(Group1))
        /\ UNCHANGED ret
        /\ ReadersFrame

ReadersLoad == \E t \in Readers : DoReadLoad(t) /\ UNCHANGED <<ret, nOps>> /\ ReadersFrame

ReadersStore == \E t \in Readers : DoReadStore(t) /\ UNCHANGED <<ret, nOps>> /\ ReadersFrame

ReadersUnlock == \E t \in Readers : DoReadUnlock(t) /\ UNCHANGED <<ret, nOps>> /\ ReadersFrame

ReadersNext == ReadersAdd \/ ReadersLock \/ ReadersLoad \/ ReadersStore \/ ReadersUnlock

SpecReaders == ReadersInit /\ [][ReadersNext]_vars

\* C16: when no GetMemories call is in progress, the use count of every
\* memory is the number of GetMemories calls made on its key since it was
\* added.
C16_ReadCountsAsUse ==
    NoReader =>
        \A k \in DOMAIN memories :
            \A i \in 1..Len(memories[k]) : memories[k][i].UseCount = useLog[k][i]

-----------------------------------------------------------------------------
(* SpecClear: sessions are filled, written to the table and cleared, by    *)
(* ClearContext of the MemoryManager and by ClearAllMemories of the admin  *)

\* the operations of a run
MaxClearOps == 4

ClearFrame ==
    UNCHANGED <<conversations, memoryService, configVars, inboundVars, sweepVars,
                limiterVars, replyVars, otherVars>>

ClearStep(op) ==
    /\ nOps < MaxClearOps
    /\ nOps' = nOps + 1
    /\ op
    /\ ClearFrame

ClearAddMemory ==
    \E u \in Users, content \in Contents :
        ClearStep(DoAddMemory(u, ConversationID(Group1), content) /\ UNCHANGED db)

ClearAddContextMessage ==
    \E u \in Users, line \in Lines :
        ClearStep(DoAddContextMessage(u, ConversationID(Group1), line) /\ UNCHANGED db)

\* SyncMemoryToDatabase with every write successful
ClearSync ==
    \E u \in Users :
        ClearStep(
            /\ memoryService
            /\ db' = SyncMemoryToDatabase(
                        memories, db, memoryService, u, ConversationID(Group1),
                        [i \in 1..Len(MemOf(createSessionKey(u, ConversationID(Group1))))
                            |-> [a \in 1..MaxAttempts |-> FALSE]]).db
            /\ UNCHANGED <<memories, context, ret, ctxLog>>)

ClearClearContext ==
    \E u \in Users :
        ClearStep(DoClearContext(u, ConversationID(Group1)) /\ UNCHANGED db)

ClearClearAllMemories ==
    ClearStep(DoClearAllMemories(ConversationID(Group1)) /\ UNCHANGED db)

ClearNext ==
    \/ ClearAddMemory
    \/ ClearAddContextMessage
    \/ ClearSync
    \/ ClearClearContext
    \/ ClearClearAllMemories

SpecClear == StoreSpecInit /\ [][ClearNext]_vars

\* what the reads of a session return is empty: GetMemories, GetContext and
\* GetPersistentMemories
SessionEmpty(u, c) ==
    /\ GetMemories(memories, u, c)[2] = <<>>
    /\ GetContext(context, u, c) = <<>>
    /\ PersistentContents(memories, db, memoryService, u, c, FALSE) = {}

\* a step that is ClearContext(u, c), or a successful ClearAllMemories(c)
\* when u has a memory list or a context window in c
ClearOf(u, c) ==
    \/ DoClearContext(u, c)
    \/ /\ DoClearAllMemories(c)
       /\ ret' = <<"bool", TRUE>>
       /\ u \in getUserIDsForConversation(memories, context, c)

\* C17: after a clear operation on a session, GetMemories and GetContext
\* of the session are empty, and so is what GetPersistentMemories returns
\* for it.
C17_ClearRemovesBoth ==
    [][\A u \in Users, c \in Convs : ClearOf(u, c) => SessionEmpty(u, c)']_vars

-----------------------------------------------------------------------------
(* SpecTranscript: conversations are created and the pipelines record      *)
(* lines in them, more than a transcript holds, while time passes          *)

\* the recordMessage calls on one conversation, and the ticks of the clock
MaxRecords == 52
MaxRecordTime == 2

TranscriptFrame ==
    UNCHANGED <<storeVars, dbVars, configVars, inboundVars, sweepVars, limiter, sends,
                replyVars, outTask, retry, proc, readers, useLog,
                mutexes,
                tasks,
                hook,
                turns,
                rwlocks,
                nest,
                forgotten>>

TranscriptInit ==
    /\ StoreInit
    /\ conversations = EmptyMap
    /\ memoryService = FALSE
    /\ db = EmptyBag
    /\ ConfigInit
    /\ InboundIdle
    /\ SweepIdle
    /\ LimiterIdle
    /\ OtherIdle
    /\ ReplyIdle

\* getOrCreateConversation of a message from the group
TranscriptCreate ==
    \E g \in GroupJIDs :
        /\ conversations' =
              getOrCreateConversation(conversations,
                                      Event(ID1, TRUE, g, "u1", TextMessage(MsgWake)),
                                      g.User, now)
        /\ conversations' # conversations
        /\ UNCHANGED <<recLog, now>>
        /\ TranscriptFrame

\* a pipeline records a line in the conversation of its message, which
\* handleMessage has created; the n-th line recorded is the text n
TranscriptRecord ==
    \E c \in DOMAIN conversations :
        /\ Len(recLog[c].lines) < MaxRecords
        /\ DoRecordMessage(c, Len(recLog[c].lines) + 1)
        /\ UNCHANGED now
        /\ TranscriptFrame

TranscriptTick ==
    /\ now < MaxRecordTime
    /\ now' = now + 1
    /\ UNCHANGED <<conversations, recLog>>
    /\ TranscriptFrame

TranscriptNext == TranscriptCreate \/ TranscriptRecord \/ TranscriptTick

SpecTranscript == TranscriptInit /\ [][TranscriptNext]_vars

\* the last n elements of a sequence, all of it when it is shorter
Last(s, n) == IF Len(s) > n THEN SubSeq(s, Len(s) - n + 1, Len(s)) ELSE s

\* C18: the transcript of every conversation holds at most MaxTranscript
\* lines, the most recently recorded ones in the order of recording, and
\* the last activity of a conversation that was recorded in is the time of
\* the last call.
C18_TranscriptBound ==
    \A c \in DOMAIN conversations :
        /\ Len(conversations[c].Messages) <= MaxTranscript
        /\ conversations[c].Messages = Last(recLog[c].lines, MaxTranscript)
        /\ recLog[c].lines # <<>> => conversations[c].LastActivity = recLog[c].at

\* a transcript has overflowed and a later call came at a later time than
\* the conversation was created
C18_Witness ==
    \E c \in DOMAIN conversations :
        /\ Len(recLog[c].lines) > MaxTranscript
        /\ conversations[c].Messages[1] = Len(recLog[c].lines) - MaxTranscript + 1
        /\ conversations[c].LastActivity = MaxRecordTime

-----------------------------------------------------------------------------
(* SpecLocks: the sync task, the admin and two per-message tasks run their *)
(* operations on the maps of the MemoryManager side by side                *)

LocksFrame ==
    UNCHANGED <<storeVars, registryVars, dbVars, configVars, inboundVars, sweepVars,
                limiterVars, replyVars, outTask, retry, proc, readers, useLog, recLog,
                hook,
                turns,
                rwlocks,
                nest,
                forgotten>>

LocksInit ==
    /\ StoreInit
    /\ conversations = EmptyMap
    /\ memoryService = TRUE
    /\ db = EmptyBag
    /\ ConfigInit
    /\ InboundIdle
    /\ SweepIdle
    /\ LimiterIdle
    /\ OtherIdle
    /\ ReplyIdle

LocksLock == \E t \in LockTasks, op \in MapOps : DoMapOpLock(t, op) /\ LocksFrame

LocksUnlock == \E t \in LockTasks : DoMapOpUnlock(t) /\ LocksFrame

LocksNext == LocksLock \/ LocksUnlock

SpecLocks == LocksInit /\ [][LocksNext]_vars

Accessing(t) == tasks[t].pc = "access"

\* the task holds m.mutex, as writer when its operation changes the maps
HoldsStoreLock(t) ==
    IF Deref(tasks[t].op).writes
    THEN mutexes["m"].writer = Some(t)
    ELSE t \in mutexes["m"].readers \/ mutexes["m"].writer = Some(t)

\* C19: a task that is at its accesses to the maps of the MemoryManager
\* holds m.mutex, the write lock if it changes them, and no two tasks are
\* at their accesses at once when one of them changes the maps.
C19_LockDiscipline ==
    /\ \A t \in LockTasks : Accessing(t) => HoldsStoreLock(t)
    /\ \A t, u \in LockTasks :
          (t # u /\ Accessing(t) /\ Accessing(u)) =>
              ~(Deref(tasks[t].op).writes \/ Deref(tasks[u].op).writes)

-----------------------------------------------------------------------------
(* SpecHook: the webhook pipelines answer the outcomes of their requests.  *)

\* turns of webhook pipelines in a run of SpecHook
MaxHookTurns == 2

HookFrame ==
    UNCHANGED <<memories, context, ret, ctxLog, dbVars, configVars, inboundVars,
                sweepVars, limiterVars, replyVars, outTask, retry, proc, readers,
                useLog, recLog, mutexes, tasks, turns,
                rwlocks,
                nest,
                forgotten>>

HookInit ==
    /\ StoreInit
    /\ conversations =
          [c \in {ConversationID(Group1)} |-> NewConversation(c, Group1, GroupJID1.User, 0)]
    /\ memoryService = FALSE
    /\ db = EmptyBag
    /\ ConfigInit
    /\ InboundIdle
    /\ SweepIdle
    /\ LimiterIdle
    /\ OtherIdle
    /\ ReplyIdle

HookTurn ==
    \E pipeline \in HookPipelines, message \in Msgs, result \in HttpResults :
        /\ nOps < MaxHookTurns
        /\ nOps' = nOps + 1
        /\ DoHookTurn(pipeline, ConversationID(Group1), message, result)
        /\ HookFrame

HookNext == HookTurn

SpecHook == HookInit /\ [][HookNext]_vars

\* the request of the turn was answered with status 200 and a readable body
Status200 ==
    /\ hook.pc = "done"
    /\ Deref(hook.result).transport = "ok"
    /\ Deref(hook.result).read = "ok"
    /\ Deref(hook.result).status = 200

-----------------------------------------------------------------------------
(* SpecTurn: plain-chat turns of two tasks, and memories added meanwhile.  *)

\* turns started in a run of SpecTurn
MaxTurns == 3
\* memories added in a run of SpecTurn
MaxTurnAdds == 1

TurnFrame ==
    UNCHANGED <<dbVars, configVars, inboundVars, sweepVars, limiterVars, replyVars,
                outTask, retry, proc, readers, useLog, recLog, mutexes, tasks, hook,
                rwlocks,
                nest,
                forgotten>>

TurnInit == HookInit

TurnStep(op) ==
    /\ op
    /\ UNCHANGED <<ret, nOps>>
    /\ TurnFrame

TurnAddMemory ==
    \E u \in Users, content \in {"x"} :
        /\ Cardinality(DOMAIN memories) < MaxTurnAdds
        /\ createSessionKey(u, ConversationID(Group1)) \notin DOMAIN memories
        /\ DoAddMemory(u, ConversationID(Group1), content)
        /\ UNCHANGED <<conversations, turns, nOps>>
        /\ TurnFrame

\* the senders of the turns of a task: the first task serves one sender,
\* the second any of them, so that both one session and two are written to
SendersOf(t) == IF t = "p1" THEN {"u1"} ELSE Users

\* the text of the turns of a task
MessageOf(t) == IF t = "p1" THEN "hi" ELSE "yo"

TurnStart ==
    \E t \in ChatTasks : \E u \in SendersOf(t), isReply \in BOOLEAN, predefined \in BOOLEAN :
        /\ nOps < MaxTurns
        /\ nOps' = nOps + 1
        /\ DoChatStart(t, u, ConversationID(Group1), MessageOf(t), isReply, predefined)
        /\ UNCHANGED ret
        /\ TurnFrame

TurnRecordUser == \E t \in ChatTasks : TurnStep(DoChatRecordUser(t))
TurnContextUser == \E t \in ChatTasks : TurnStep(DoChatContextUser(t))
TurnRecordPredefined == \E t \in ChatTasks : TurnStep(DoChatRecordPredefined(t))
TurnContextPredefined == \E t \in ChatTasks : TurnStep(DoChatContextPredefined(t))
TurnGetChat == \E t \in ChatTasks, found \in BOOLEAN : TurnStep(DoChatGetChat(t, found))
TurnGetContext == \E t \in ChatTasks : TurnStep(DoChatGetContext(t))
TurnGetMemories == \E t \in ChatTasks : TurnStep(DoChatGetMemories(t))
TurnSendMessage ==
    \E t \in ChatTasks, outcome \in {"error", "empty", "response"} :
        TurnStep(DoChatSendMessage(t, outcome))
TurnRecordBot == \E t \in ChatTasks : TurnStep(DoChatRecordBot(t))
TurnContextBot == \E t \in ChatTasks : TurnStep(DoChatContextBot(t))
TurnExtractUser == \E t \in ChatTasks : TurnStep(DoChatExtractUser(t))
TurnExtractBot == \E t \in ChatTasks : TurnStep(DoChatExtractBot(t))

TurnNext ==
    \/ TurnAddMemory
    \/ TurnStart
    \/ TurnRecordUser
    \/ TurnContextUser
    \/ TurnRecordPredefined
    \/ TurnContextPredefined
    \/ TurnGetChat
    \/ TurnGetContext
    \/ TurnGetMemories
    \/ TurnSendMessage
    \/ TurnRecordBot
    \/ TurnContextBot
    \/ TurnExtractUser
    \/ TurnExtractBot

SpecTurn == TurnInit /\ [][TurnNext]_vars

\* C21: every dispatched turn that ends in a failure of its pipeline (no
\* chat, an error of SendMessage, no response) has sent a failure reply to
\* the user: no turn ends with an error and no reply.
C21_FailureReply ==
    \A t \in ChatTasks :
        (turns[t].pc = "done" /\ turns[t].failed) => turns[t].reply.kind = "apology"

\* C24: the prompt of a plain-chat turn holds the context window and the
\* memories of the sender's session if and only if the turn is a reply to
\* the bot, and the use counts of a session's memories change only in the
\* GetMemories call of a reply-to-bot turn of that session: a turn that is
\* not a reply to the bot leaves them as they are.
C24_InjectIffReply ==
    /\ [](\A t \in ChatTasks :
            turns[t].pc = "send_message" =>
                /\ turns[t].prompt # Nil <=> turns[t].isReplyToBot
                /\ turns[t].isReplyToBot =>
                      Len(Deref(turns[t].prompt).context) >= 1)
    /\ [][\A t \in ChatTasks :
            /\ (turns[t].pc = "get_context" /\ turns'[t].pc = "get_memories") =>
                  Deref(turns'[t].prompt).context = CtxOf(TurnKey(t))
            /\ (turns[t].pc = "get_memories" /\ turns'[t].pc = "send_message") =>
                  Deref(turns'[t].prompt).memories = MemOf(TurnKey(t))']_vars
    /\ [][\A k \in DOMAIN memories :
            memories'[k] # memories[k] =>
                \E t \in ChatTasks :
                    /\ turns[t].isReplyToBot
                    /\ turns[t].pc = "get_memories"
                    /\ turns'[t].pc = "send_message"
                    /\ TurnKey(t) = k]_vars
    /\ [][\A t \in ChatTasks :
            (turns'[t] # turns[t] /\ ~turns[t].isReplyToBot) => memories' = memories]_vars

\* a reply-to-bot turn about to call SendMessage with a memory in its
\* prompt, beside a turn of the same sender that is not a reply to the bot
\* and has no prompt
C24_Witness ==
    /\ turns["p1"].pc = "send_message"
    /\ turns["p1"].isReplyToBot
    /\ Len(Deref(turns["p1"].prompt).memories) = 1
    /\ Deref(turns["p1"].prompt).memories[1].UseCount = 1
    /\ turns["p2"].pc = "send_message"
    /\ ~turns["p2"].isReplyToBot
    /\ TurnKey("p2") = TurnKey("p1")
    /\ turns["p2"].prompt = Nil

\* C25: under concurrent plain-chat turns on one session every
\* AddContextMessage call takes effect as a whole: in every state the
\* window of a session holds at most 10 lines and is exactly the lines
\* added to it, each once and in the order of the calls, less the oldest
\* ones that adds to a full window pushed out.
C25_AtomicContextWrites ==
    \A u \in Users, c \in Convs :
        LET k == createSessionKey(u, c)
            got == GetContext(context, u, c)
        IN  /\ Len(got) <= MaxContext
            /\ got = SubSeq(LogOf(k), EvictedOf(k) + 1, Len(LogOf(k)))
            /\ Len(LogOf(k)) = EvictedOf(k) + Len(got)

\* two turns of one sender that wrote their first lines one after the
\* other, one of them still writing, and a window that overflowed
C25_Witness ==
    LET k == createSessionKey("u1", ConversationID(Group1))
    IN  /\ Len(LogOf(k)) > MaxContext
        /\ EvictedOf(k) >= 1
        /\ LogOf(k)[1] = UserLine("hi")
        /\ LogOf(k)[2] = UserLine("yo")
        /\ turns["p2"].pc = "extract_bot"
        /\ TurnKey("p2") = k

\* C22: a webhook pipeline (food, web search, family) whose request is
\* answered with status 200 never fails the turn over the shape of the
\* body: whatever the body, the reply is an answer taken from it, never an
\* apology.
C22_ShapeFallback == Status200 => hook.reply.kind = "answer"

-----------------------------------------------------------------------------
(* SpecDurable: the sync task of Start sweeps at every tick of its ticker  *)
(* while memories are added, also during a sweep.  The ticker keeps firing *)
(* and a sweep runs to its end (weak fairness); the writes of a key fail   *)
(* in any pattern but not for ever (strong fairness of the sync of a key   *)
(* in which every write succeeds).                                         *)

\* memories added in a run of SpecDurable
MaxDurableAdds == 2

DurableKeys == {createSessionKey(u, ConversationID(Group1)) : u \in Users}

DurableInit ==
    /\ StoreInit
    /\ conversations = EmptyMap
    /\ memoryService = TRUE
    /\ db = EmptyBag
    /\ ConfigInit
    /\ InboundIdle
    /\ SweepIdle
    /\ LimiterIdle
    /\ OtherIdle
    /\ ReplyIdle

DurableAddMemory ==
    \E u \in Users, content \in Contents :
        /\ nOps < MaxDurableAdds
        /\ nOps' = nOps + 1
        /\ DoAddMemory(u, ConversationID(Group1), content)
        /\ UNCHANGED <<db, sweep, syncLog>>
        /\ SweepFrame

DurableStart == DoSweepStart /\ UNCHANGED <<ret, nOps>> /\ SweepFrame

DurableKey == DoSweepKey /\ UNCHANGED <<ret, nOps>> /\ SweepFrame

DurableFinish == DoSweepFinish /\ UNCHANGED <<ret, nOps>> /\ SweepFrame

DurableNext == DurableAddMemory \/ DurableStart \/ DurableKey \/ DurableFinish

\* the sync of key k in which every write succeeded
DurableKeyOk(k) ==
    /\ sweep.pc = "running"
    /\ sweep.i <= Len(sweep.pairs)
    /\ sweep.pairs[sweep.i] = k
    /\ DurableKey
    /\ sweep'.successCount = sweep.successCount + 1

SpecDurable ==
    /\ DurableInit
    /\ [][DurableNext]_vars
    /\ WF_vars(DurableStart)
    /\ WF_vars(DurableKey)
    /\ WF_vars(DurableFinish)
    /\ \A k \in DurableKeys : SF_vars(DurableKeyOk(k))

DurableFacts ==
    {Fact(u, ConversationID(Group1), content) : u \in Users, content \in Contents}

\* C26: while the periodic sync keeps running and the writes of a key do
\* not fail for ever, every memory held by the store is eventually a row of
\* the durable table.
C26_EventuallyDurable ==
    \A f \in DurableFacts :
        (f \in StoreFacts(memories)) ~> (RowsOf(db, f) # {})

\* the two memories of the store are durable at the end of a sweep, the
\* second of them added after the sweep had collected its keys
C26_Witness ==
    /\ sweep.pc = "done"
    /\ syncLog.startStore # memories
    /\ Cardinality(StoreFacts(memories)) = 2
    /\ \A f \in StoreFacts(memories) : RowsOf(db, f) # {}

-----------------------------------------------------------------------------
(* SpecNest: the sync task, two admin requests and a per-message task run  *)
(* operations in any interleaving of their lock calls.                     *)

NestFrame ==
    UNCHANGED <<storeVars, registryVars, dbVars, configVars, inboundVars, sweepVars,
                limiterVars, replyVars, outTask, retry, proc, readers, useLog, recLog,
                mutexes, tasks, hook, turns,
                forgotten>>

NestInit == LocksInit

NestCall == \E t \in NestTasks : \E op \in OpsOf(NestKind(t)) : DoNestCall(t, op) /\ NestFrame
NestRLock == \E t \in NestTasks : DoRLock(t) /\ NestFrame
NestAnnounce == \E t \in NestTasks : DoAnnounce(t) /\ NestFrame
NestLockW == \E t \in NestTasks : DoLockW(t) /\ NestFrame
NestUnlock == \E t \in NestTasks : DoUnlock(t) /\ NestFrame

NestNext == NestCall \/ NestRLock \/ NestAnnounce \/ NestLockW \/ NestUnlock

SpecNest == NestInit /\ [][NestNext]_vars

\* the task is inside an operation
Busy(t) == nest[t].op # "none"

\* the task is in a lock call that cannot return now
Waiting(t) ==
    /\ Busy(t)
    /\ NextCall(t).act = "lock"
    /\ ~CanRLock(t)
    /\ ~CanAnnounce(t)
    /\ ~CanLockW(t)

\* C28: a task that holds both locks took a.mutex first, no task calls for
\* a.mutex while it holds m.mutex, and in no reachable state is every task
\* that is inside an operation waiting for a lock: some task can always
\* move on, so no set of tasks waits on each other for ever.
C28_NoDeadlock ==
    /\ \A t \in NestTasks :
          /\ Len(nest[t].held) = 2 => nest[t].held = <<"a", "m">>
          /\ (Busy(t) /\ NextCall(t).act = "lock" /\ NextCall(t).lock = "a")
                => nest[t].held = <<>>
    /\ (\E t \in NestTasks : Busy(t)) => \E t \in NestTasks : Busy(t) /\ ~Waiting(t)

\* GetUsersInConversation holds a.mutex and waits for m.mutex, which the
\* per-message task holds for writing, while DeleteContextMessage has
\* announced itself on a.mutex
C28_Witness ==
    /\ nest["admin1"].op = "GetUsersInConversation"
    /\ nest["admin1"].held = <<"a">>
    /\ Waiting("admin1")
    /\ nest["admin2"].op = "DeleteContextMessage"
    /\ "admin2" \in rwlocks["a"].pending
    /\ Waiting("admin2")
    /\ rwlocks["m"].writer = Some("message")

-----------------------------------------------------------------------------
(* SpecForget: memories are added through the admin operation and deleted  *)
(* from the table while the sync task sweeps.                              *)

\* admin operations in a run of SpecForget
MaxForgetOps == 2

ForgetFrame ==
    UNCHANGED <<conversations, memoryService, configVars, inboundVars, limiterVars,
                replyVars, outTask, retry, proc, readers, useLog, recLog, mutexes,
                tasks, hook, turns, rwlocks, nest>>

ForgetOp(op) ==
    /\ nOps < MaxForgetOps
    /\ nOps' = nOps + 1
    /\ op
    /\ UNCHANGED <<sweep, syncLog>>
    /\ ForgetFrame

ForgetAddMemory ==
    \E u \in Users, c \in Convs, content \in Contents, fails \in FailPatterns :
        ForgetOp(/\ DoAdminAddMemory(c, u, content, fails)
                 /\ forgotten' =
                       IF ret' = <<"bool", TRUE>>
                       THEN forgotten \ {Fact(u, c, content)} ELSE forgotten)

ForgetClear ==
    \E u \in Users, fails \in BOOLEAN :
        ForgetOp(DoClearAllPersistentMemories(u, ConversationID(Group1), fails))

ForgetDelete ==
    \E index \in 0..1, queryFails \in BOOLEAN, fails \in BOOLEAN :
        ForgetOp(DoDeletePersistentMemory(ConversationID(Group1), index, queryFails, fails))

ForgetSweep(step) ==
    /\ step
    /\ UNCHANGED <<context, ctxLog, ret, nOps, forgotten>>
    /\ ForgetFrame

ForgetSweepStart == ForgetSweep(DoSweepStart)
ForgetSweepKey == ForgetSweep(DoSweepKey)
ForgetSweepFinish == ForgetSweep(DoSweepFinish)

ForgetNext ==
    \/ ForgetAddMemory
    \/ ForgetClear
    \/ ForgetDelete
    \/ ForgetSweepStart
    \/ ForgetSweepKey
    \/ ForgetSweepFinish

SpecForget == StoreSpecInit /\ [][ForgetNext]_vars

\* C29: a fact deleted from the table by a successful
\* ClearAllPersistentMemories or DeletePersistentMemory has no row in the
\* table, whatever sweeps run, until an AddMemory call adds it again.
C29_DeletedStaysDeleted == \A f \in forgotten : RowsOf(db, f) = {}

\* C30: an admin AddMemory call returns false exactly when the conversation
\* is unknown or every attempt of the durable write failed, and then leaves
\* the store and the table as they were; when it returns true the store
\* holds one more memory of the session with the content and, with a
\* memory service, the table holds a row for it.
C30_AllOrNothing ==
    [][\A u \in Users, c \in Convs, content \in Contents, fails \in FailPatterns :
          (DoAdminAddMemory(c, u, content, fails) /\ nOps' = nOps + 1) =>
             LET k == createSessionKey(u, c)
                 refused == \/ c \notin DOMAIN conversations
                            \/ memoryService /\ \A i \in 1..MaxAttempts : fails[i]
             IN  /\ ret' = <<"bool", ~refused>>
                 /\ refused => memories' = memories /\ db' = db
                 /\ ~refused =>
                       /\ memories' = MapPut(memories, k,
                                             Append(MemOf(k), NewMemory(content)))
                       /\ memoryService => RowsOf(db', Fact(u, c, content)) # {}
                       /\ ~memoryService => db' = db]_vars

\* a call was refused because its durable writes failed, after a call that
\* succeeded
C30_Witness ==
    /\ ret = <<"bool", FALSE>>
    /\ memoryService
    /\ ConversationID(Group1) \in DOMAIN conversations
    /\ StoreFacts(memories) # {}
    /\ \A f \in StoreFacts(memories) : RowsOf(db, f) # {}

====
